---------------------------- MODULE Spec2Model ----------------------------
(***************************************************************************)
(* Model of the message-bus worker of gadalka-context:                     *)
(*   src/src/kafka_bus/client.py   KafkaMessageBus  (real transport)       *)
(*   src/src/kafka_bus/mock.py     InMemoryMessageBus                      *)
(*   src/src/kafka_bus/worker.py   KafkaWorker                             *)
(*                                                                         *)
(* One Python thread runs KafkaWorker.run(); pc is its position.  A signal *)
(* handler (KafkaWorker._handle_signal) runs on that same thread between   *)
(* two of its steps, so it is one atomic action that may fire at any pc    *)
(* once run() has installed it.                                            *)
(***************************************************************************)
EXTENDS Integers, Sequences, FiniteSets, TLC

\* ------------------------------------------------------------------ bounds
MaxLog == 3
MaxQueue == 3
MaxSignals == 2
MaxMax == 2

\* no message in hand
NoMsg == 0 - 1

VARIABLES
    busKind,        \* "kafka" | "mock": the bus _select_bus returned
    libAvailable,   \* confluent_kafka imported (Consumer/Producer not None)
    max_messages,   \* KafkaWorker.max_messages: [given |-> BOOLEAN, val |-> Int]
    pc,             \* position of the thread running KafkaWorker.run()
    exc,            \* an exception is propagating out of consume
    stopped,        \* KafkaWorker._stopped
    processed,      \* KafkaWorker._processed
    running,        \* bus._running.is_set()
    consumer,       \* KafkaMessageBus.consumer: "none" | "open" | "closed"
    producer,       \* KafkaMessageBus.producer: "none" | "open"
    log,            \* the input partition at the broker: Seq of "value" | "novalue"
    position,       \* the consumer's in-memory fetch position
    committed,      \* the group's committed offset at the broker
    input_queue,    \* InMemoryMessageBus._input_queue (message ids)
    enqueued,       \* number of enqueue_input calls so far (next message id)
    consume_max,    \* max_messages argument of InMemoryMessageBus.consume
    bus_processed,  \* local `processed` of InMemoryMessageBus.consume
    out,            \* messages produced to the output topic (ids of their inputs)
    flushed,        \* how many entries of out a producer flush has covered
    msg,            \* last poll result: "unset" | "None" | "error" | "novalue" | "value"
    cur,            \* the message (offset / id) in hand, NoMsg if none
    success,        \* outcome of the handler call: "none" | "true" | "false" | "raised"
    sigCount,       \* signals delivered so far
    \* history
    passed,         \* ids the bus has passed to the handler
    invoked,        \* ids for which the processor was invoked
    okSet,          \* ids whose handler call returned true
    failSet,        \* ids with a handler call that returned false or raised
    raisedEver,     \* some handler call raised
    commitIssued,   \* offsets for which consumer.commit(msg) was called
    busStopCalls,   \* calls of bus.stop() so far
    finallyStops,   \* calls of bus.stop() made by run()'s finally clause
    stopAt,         \* snapshot taken by the first KafkaWorker.stop()
    handles,        \* what the bus has allocated and released so far
    call,           \* one KafkaWorker._handle_message call, step by step
    config,         \* the KafkaSettings and the configs computed from them
    memory          \* a RedisMemory and the Redis lists behind it

envVars == <<busKind, libAvailable, max_messages, log, consume_max, config, memory>>
workerVars == <<stopped, processed>>
busVars == <<running, consumer, producer, position, flushed, busStopCalls, handles>>
histVars == <<passed, invoked, okSet, failSet, raisedEver, commitIssued, finallyStops>>
vars == <<busKind, libAvailable, max_messages, pc, exc, stopped, processed, running,
          consumer, producer, log, position, committed, input_queue, enqueued,
          consume_max, bus_processed, out, flushed, msg, cur, success, sigCount,
          passed, invoked, okSet, failSet, raisedEver, commitIssued, busStopCalls,
          finallyStops, stopAt, handles, call, config, memory>>

NoMax == [given |-> FALSE, val |-> 0]
Max(n) == [given |-> TRUE, val |-> n]
MaxValues == {NoMax} \cup {Max(n) : n \in 0..MaxMax}
Logs == UNION {[1..n -> {"value", "novalue"}] : n \in 0..MaxLog}
NoStop == [taken |-> FALSE, invoked |-> {}, produced |-> 0, inflight |-> NoMsg]
\* starts: calls of bus.start(); consumers / producers: objects constructed;
\* closes / flushes: consumer.close() / producer.flush() calls; startRaised:
\* the last call of bus.start() raised; bufferErrors: produce calls that raised
\* BufferError
NoHandles == [starts |-> 0, consumers |-> 0, producers |-> 0, closes |-> 0,
              flushes |-> 0, startRaised |-> FALSE, bufferErrors |-> 0]
NoCall == [stage |-> "none"]
NoConfig == [have |-> {}]
NoMemory == [have |-> {}]

\* `self.max_messages is not None and self._processed >= self.max_messages`
MaxReached(m, n) == m.given /\ n >= m.val

\* the handler call for cur has entered the processor and has not returned
InFlight == pc \in {"hm_processor", "hm_produce", "hm_count"}

\* ------------------------------------------------------------------ Init
\* the worker and its bus after construction
InitWorker ==
    /\ busKind \in {"kafka", "mock"}
    /\ libAvailable \in BOOLEAN
    /\ max_messages \in MaxValues
    /\ log \in Logs
    /\ (busKind = "mock" => log = <<>> /\ libAvailable)
    /\ pc = "created"
    /\ exc = FALSE
    /\ stopped = FALSE
    /\ processed = 0
    /\ running = FALSE
    /\ consumer = "none"
    /\ producer = "none"
    /\ position = 0
    /\ committed = 0
    /\ input_queue = <<>>
    /\ enqueued = 0
    /\ consume_max = NoMax
    /\ bus_processed = 0
    /\ out = <<>>
    /\ flushed = 0
    /\ msg = "unset"
    /\ cur = NoMsg
    /\ success = "none"
    /\ sigCount = 0
    /\ passed = {}
    /\ invoked = {}
    /\ okSet = {}
    /\ failSet = {}
    /\ raisedEver = FALSE
    /\ commitIssued = {}
    /\ busStopCalls = 0
    /\ finallyStops = 0
    /\ stopAt = NoStop
    /\ handles = NoHandles

Init == InitWorker /\ call = NoCall /\ config = NoConfig /\ memory = NoMemory

\* ------------------------------------------------------- bus: start / stop
\* how a call of bus.start() can end.  Kafka, not Running: ImportError when
\* confluent_kafka is missing; otherwise Consumer(...), Producer(...) or
\* subscribe(...) may raise.  Running, or the in-memory bus: returns.
StartOutcomes ==
    IF busKind = "mock" \/ running THEN {"ok"}
    ELSE IF ~libAvailable THEN {"ImportError"}
    ELSE {"ok", "ConsumerRaises", "ProducerRaises", "SubscribeRaises"}

BusStartRaises(o) == o # "ok"

\* mutant: start() without the `if self._running.is_set(): return` guard
BusStart_NoRunningGuard(o) ==
    IF busKind = "kafka"
    THEN /\ consumer' = IF o \in {"ok", "ProducerRaises", "SubscribeRaises"}
                        THEN "open" ELSE consumer
         /\ producer' = IF o \in {"ok", "SubscribeRaises"} THEN "open" ELSE producer
         /\ position' = IF o = "ok" THEN committed ELSE position
         /\ running' = (o = "ok")
         /\ handles' = [handles EXCEPT
               !.starts = @ + 1,
               !.consumers = IF o \in {"ok", "ProducerRaises", "SubscribeRaises"}
                             THEN @ + 1 ELSE @,
               !.producers = IF o \in {"ok", "SubscribeRaises"} THEN @ + 1 ELSE @,
               !.startRaised = BusStartRaises(o)]
    ELSE /\ running' = TRUE
         /\ handles' = [handles EXCEPT !.starts = @ + 1, !.startRaised = FALSE]
         /\ UNCHANGED <<consumer, producer, position>>

\* bus.start() ending as o.  Kafka: no-op when Running, else a new Consumer
\* (subscribed, fetching from the group's committed offset) and a new
\* Producer, the running flag set last; a statement that raises leaves what
\* the earlier statements assigned.  Mock: sets the running flag only.
BusStart(o) ==
    IF busKind = "kafka"
    THEN IF running
         THEN /\ handles' = [handles EXCEPT !.starts = @ + 1, !.startRaised = FALSE]
              /\ UNCHANGED <<running, consumer, producer, position>>
         ELSE /\ consumer' = IF o \in {"ok", "ProducerRaises", "SubscribeRaises"}
                             THEN "open" ELSE consumer
              /\ producer' = IF o \in {"ok", "SubscribeRaises"} THEN "open" ELSE producer
              /\ position' = IF o = "ok" THEN committed ELSE position
              /\ running' = (o = "ok")
              /\ handles' = [handles EXCEPT
                    !.starts = @ + 1,
                    !.consumers = IF o \in {"ok", "ProducerRaises", "SubscribeRaises"}
                                  THEN @ + 1 ELSE @,
                    !.producers = IF o \in {"ok", "SubscribeRaises"} THEN @ + 1 ELSE @,
                    !.startRaised = BusStartRaises(o)]
    ELSE /\ running' = TRUE
         /\ handles' = [handles EXCEPT !.starts = @ + 1, !.startRaised = FALSE]
         /\ UNCHANGED <<consumer, producer, position>>

\* bus.stop().  Kafka: no-op when not Running, else clear the flag, close the
\* consumer, flush the producer (errors of both are logged, not raised).
\* Mock: clears the running flag.
BusStop ==
    /\ busStopCalls' = busStopCalls + 1
    /\ IF busKind = "kafka"
       THEN IF ~running
            THEN UNCHANGED <<running, consumer, flushed, handles>>
            ELSE /\ running' = FALSE
                 /\ consumer' = IF consumer = "none" THEN "none" ELSE "closed"
                 /\ flushed' = IF producer = "none" THEN flushed ELSE Len(out)
                 /\ handles' = [handles EXCEPT
                       !.closes = IF consumer = "none" THEN @ ELSE @ + 1,
                       !.flushes = IF producer = "none" THEN @ ELSE @ + 1]
       ELSE /\ running' = FALSE
            /\ UNCHANGED <<consumer, flushed, handles>>

NoBusStop == UNCHANGED <<running, consumer, flushed, busStopCalls, handles>>

\* mutant: stop() without the `if self._stopped: return` guard
WorkerStop_NotIdempotent ==
    /\ stopped' = TRUE
    /\ stopAt' = IF stopped THEN stopAt
                 ELSE [taken |-> TRUE, invoked |-> invoked, produced |-> Len(out),
                       inflight |-> IF InFlight THEN cur ELSE NoMsg]
    /\ BusStop

\* KafkaWorker.stop(): idempotent; sets the flag and forwards to bus.stop()
WorkerStop ==
    IF stopped
    THEN UNCHANGED <<stopped, stopAt>> /\ NoBusStop
    ELSE /\ stopped' = TRUE
         /\ stopAt' = [taken |-> TRUE, invoked |-> invoked, produced |-> Len(out),
                       inflight |-> IF InFlight THEN cur ELSE NoMsg]
         /\ BusStop

\* ------------------------------------------------------------ environment
\* InMemoryMessageBus.enqueue_input, called before the worker runs
EnqueueInput ==
    /\ pc = "created"
    /\ busKind = "mock"
    /\ enqueued < MaxQueue
    /\ input_queue' = Append(input_queue, enqueued)
    /\ enqueued' = enqueued + 1
    /\ UNCHANGED <<envVars, call, pc, exc, workerVars, busVars, committed, bus_processed, out,
                   msg, cur, success, sigCount, histVars, stopAt>>

\* SIGINT / SIGTERM delivered while run() is executing (the handlers are
\* installed and the process has not left run()): _handle_signal calls
\* self.stop()
Signal ==
    /\ pc \notin {"created", "done", "failed", "start_failed"}
    /\ sigCount < MaxSignals
    /\ sigCount' = sigCount + 1
    /\ WorkerStop
    /\ UNCHANGED <<envVars, call, pc, exc, processed, producer, position, committed, input_queue,
                   enqueued, bus_processed, out, msg, cur, success, histVars>>

\* ------------------------------------------------------- KafkaWorker.run
\* run(): install the signal handlers, log the start
Run ==
    /\ pc = "created"
    /\ pc' = "run_start"
    /\ UNCHANGED <<envVars, call, exc, workerVars, busVars, committed, input_queue, enqueued,
                   bus_processed, out, msg, cur, success, sigCount, histVars, stopAt>>

\* mutant: run() logs what bus.start() raised and goes on to consume
RunStart_SwallowsError ==
    /\ pc = "run_start"
    /\ \E o \in StartOutcomes : BusStart(o)
    /\ pc' = "consume_entry"
    /\ UNCHANGED <<envVars, call, exc, workerVars, flushed, busStopCalls, committed,
                   input_queue, enqueued, bus_processed, out, msg, cur, success, sigCount,
                   histVars, stopAt>>

\* run(): self.bus.start(), outside the try block: what it raises leaves run()
RunStart ==
    /\ pc = "run_start"
    /\ \E o \in StartOutcomes :
          /\ BusStart(o)
          /\ pc' = IF BusStartRaises(o) THEN "start_failed" ELSE "consume_entry"
          /\ exc' = (exc \/ BusStartRaises(o))
    /\ UNCHANGED <<envVars, call, workerVars, flushed, busStopCalls, committed, input_queue,
                   enqueued, bus_processed, out, msg, cur, success, sigCount, histVars,
                   stopAt>>

\* mutant: bus.stop() follows consume without try/finally, so an exception
\* leaving consume skips it
RunFinally_NotOnException ==
    /\ pc = "run_finally"
    /\ IF exc
       THEN NoBusStop /\ finallyStops' = finallyStops
       ELSE BusStop /\ finallyStops' = finallyStops + 1
    /\ pc' = IF exc THEN "failed" ELSE "done"
    /\ UNCHANGED <<envVars, call, exc, workerVars, producer, position, committed, input_queue,
                   enqueued, bus_processed, out, msg, cur, success, sigCount, passed,
                   invoked, okSet, failSet, raisedEver, commitIssued, stopAt>>

\* run(): finally: self.bus.stop(); then return, or re-raise what consume raised
RunFinally ==
    /\ pc = "run_finally"
    /\ BusStop
    /\ finallyStops' = finallyStops + 1
    /\ pc' = IF exc THEN "failed" ELSE "done"
    /\ UNCHANGED <<envVars, call, exc, workerVars, producer, position, committed, input_queue,
                   enqueued, bus_processed, out, msg, cur, success, sigCount, passed,
                   invoked, okSet, failSet, raisedEver, commitIssued, stopAt>>

\* --------------------------------------------------------- bus.consume
\* consume(): `if not self._running.is_set(): self.start()`; the in-memory
\* consume also sets its local processed = 0
ConsumeEntry ==
    /\ pc = "consume_entry"
    /\ IF running
       THEN /\ pc' = "loop"
            /\ UNCHANGED <<exc, running, consumer, producer, position, handles>>
       ELSE \E o \in StartOutcomes :
               /\ BusStart(o)
               /\ pc' = IF BusStartRaises(o) THEN "run_finally" ELSE "loop"
               /\ exc' = (exc \/ BusStartRaises(o))
    /\ bus_processed' = 0
    /\ UNCHANGED <<envVars, call, workerVars, flushed, busStopCalls, committed, input_queue,
                   enqueued, out, msg, cur, success, sigCount, histVars, stopAt>>

\* KafkaMessageBus.consume: `while self._running.is_set():`
KafkaLoop ==
    /\ pc = "loop"
    /\ busKind = "kafka"
    /\ pc' = IF running THEN "poll" ELSE "consume_stop"
    /\ UNCHANGED <<envVars, call, exc, workerVars, busVars, committed, input_queue, enqueued,
                   bus_processed, out, msg, cur, success, sigCount, histVars, stopAt>>

\* consumer.poll() on a consumer that stop() has closed raises RuntimeError,
\* which leaves consume
PollRaises ==
    /\ pc = "poll"
    /\ consumer # "open"
    /\ exc' = TRUE
    /\ pc' = "run_finally"
    /\ UNCHANGED <<envVars, call, workerVars, busVars, committed, input_queue, enqueued,
                   bus_processed, out, msg, cur, success, sigCount, histVars, stopAt>>

\* poll timed out: `if msg is None: continue`
PollNone ==
    /\ pc = "poll"
    /\ consumer = "open"
    /\ msg' = "None"
    /\ pc' = "loop"
    /\ UNCHANGED <<envVars, call, exc, workerVars, busVars, committed, input_queue, enqueued,
                   bus_processed, out, cur, success, sigCount, histVars, stopAt>>

\* poll returned a broker error event: `if msg.error(): log; continue`
PollError ==
    /\ pc = "poll"
    /\ consumer = "open"
    /\ msg' = "error"
    /\ pc' = "loop"
    /\ UNCHANGED <<envVars, call, exc, workerVars, busVars, committed, input_queue, enqueued,
                   bus_processed, out, cur, success, sigCount, histVars, stopAt>>

\* mutant: a record without value is handed to the handler like any other
PollNoValue_CallsHandler ==
    /\ pc = "poll"
    /\ consumer = "open"
    /\ position < Len(log)
    /\ log[position + 1] = "novalue"
    /\ position' = position + 1
    /\ msg' = "novalue"
    /\ cur' = position
    /\ passed' = passed \cup {position}
    /\ pc' = "hm_entry"
    /\ UNCHANGED <<envVars, call, exc, workerVars, running, consumer, producer, flushed,
                   busStopCalls, handles, committed, input_queue, enqueued,
                   bus_processed, out,
                   success, sigCount, invoked, okSet, failSet, raisedEver, commitIssued,
                   finallyStops, stopAt>>

\* poll returned the record at the fetch position and it has no value:
\* `if raw_value is None: log; continue`
PollNoValue ==
    /\ pc = "poll"
    /\ consumer = "open"
    /\ position < Len(log)
    /\ log[position + 1] = "novalue"
    /\ position' = position + 1
    /\ msg' = "novalue"
    /\ pc' = "loop"
    /\ UNCHANGED <<envVars, call, exc, workerVars, running, consumer, producer, flushed,
                   busStopCalls, handles, committed, input_queue, enqueued,
                   bus_processed, out,
                   cur, success, sigCount, histVars, stopAt>>

\* poll returned the record at the fetch position, with a value: decode it,
\* build the metadata and call handler(payload, metadata)
PollValue ==
    /\ pc = "poll"
    /\ consumer = "open"
    /\ position < Len(log)
    /\ log[position + 1] = "value"
    /\ position' = position + 1
    /\ msg' = "value"
    /\ cur' = position
    /\ passed' = passed \cup {position}
    /\ pc' = "hm_entry"
    /\ UNCHANGED <<envVars, call, exc, workerVars, running, consumer, producer, flushed,
                   busStopCalls, handles, committed, input_queue, enqueued,
                   bus_processed, out,
                   success, sigCount, invoked, okSet, failSet, raisedEver, commitIssued,
                   finallyStops, stopAt>>

\* mutant: the handler's exception is not caught and leaves consume
KafkaHandlerRaised_Propagates ==
    /\ pc = "after_handler"
    /\ busKind = "kafka"
    /\ success = "raised"
    /\ pc' = "run_finally"
    /\ exc' = TRUE
    /\ cur' = NoMsg
    /\ success' = "none"
    /\ UNCHANGED <<envVars, call, workerVars, busVars, committed, input_queue, enqueued,
                   bus_processed, out, msg, sigCount, histVars, stopAt>>

\* the handler raised: _handle_failure logs, `continue`
KafkaHandlerRaised ==
    /\ pc = "after_handler"
    /\ busKind = "kafka"
    /\ success = "raised"
    /\ pc' = "loop"
    /\ cur' = NoMsg
    /\ success' = "none"
    /\ UNCHANGED <<envVars, call, exc, workerVars, busVars, committed, input_queue, enqueued,
                   bus_processed, out, msg, sigCount, histVars, stopAt>>

\* mutant: the offset is committed whatever the handler returned
KafkaNoCommit_Commits ==
    /\ pc = "after_handler"
    /\ busKind = "kafka"
    /\ success = "false"
    /\ commitIssued' = commitIssued \cup {cur}
    /\ committed' = IF consumer = "open" THEN cur + 1 ELSE committed
    /\ pc' = "loop"
    /\ cur' = NoMsg
    /\ success' = "none"
    /\ UNCHANGED <<envVars, call, exc, workerVars, busVars, input_queue, enqueued,
                   bus_processed, out, msg, sigCount, passed, invoked, okSet, failSet,
                   raisedEver, finallyStops, stopAt>>

\* the handler returned false: warning, no commit
KafkaNoCommit ==
    /\ pc = "after_handler"
    /\ busKind = "kafka"
    /\ success = "false"
    /\ pc' = "loop"
    /\ cur' = NoMsg
    /\ success' = "none"
    /\ UNCHANGED <<envVars, call, exc, workerVars, busVars, committed, input_queue, enqueued,
                   bus_processed, out, msg, sigCount, histVars, stopAt>>

\* mutant: the commit is deferred past the next poll
KafkaCommit_Deferred ==
    /\ pc = "after_handler"
    /\ busKind = "kafka"
    /\ success = "true"
    /\ pc' = "loop"
    /\ cur' = NoMsg
    /\ success' = "none"
    /\ UNCHANGED <<envVars, call, exc, workerVars, busVars, committed, input_queue, enqueued,
                   bus_processed, out, msg, sigCount, histVars, stopAt>>

\* the handler returned true: self.consumer.commit(msg).  The broker records
\* msg.offset() + 1 as the group's committed offset.  On a closed consumer the
\* call raises; the error is logged and the loop goes on.
KafkaCommit ==
    /\ pc = "after_handler"
    /\ busKind = "kafka"
    /\ success = "true"
    /\ commitIssued' = commitIssued \cup {cur}
    /\ committed' = IF consumer = "open" THEN cur + 1 ELSE committed
    /\ pc' = "loop"
    /\ cur' = NoMsg
    /\ success' = "none"
    /\ UNCHANGED <<envVars, call, exc, workerVars, busVars, input_queue, enqueued,
                   bus_processed, out, msg, sigCount, passed, invoked, okSet, failSet,
                   raisedEver, finallyStops, stopAt>>

\* the handler returned true and the commit fails at the broker: logged
KafkaCommitFails ==
    /\ pc = "after_handler"
    /\ busKind = "kafka"
    /\ success = "true"
    /\ consumer = "open"
    /\ commitIssued' = commitIssued \cup {cur}
    /\ pc' = "loop"
    /\ cur' = NoMsg
    /\ success' = "none"
    /\ UNCHANGED <<envVars, call, exc, workerVars, busVars, committed, input_queue, enqueued,
                   bus_processed, out, msg, sigCount, passed, invoked, okSet, failSet,
                   raisedEver, finallyStops, stopAt>>

\* the loop condition failed: the trailing self.stop(), then consume returns
KafkaConsumeStop ==
    /\ pc = "consume_stop"
    /\ BusStop
    /\ pc' = "run_finally"
    /\ UNCHANGED <<envVars, call, exc, workerVars, producer, position, committed, input_queue,
                   enqueued, bus_processed, out, msg, cur, success, sigCount, histVars,
                   stopAt>>

\* mutant: the loop condition tests for more than one queued message
MockLoop_LeavesLast ==
    /\ pc = "loop"
    /\ busKind = "mock"
    /\ IF running /\ Len(input_queue) > 1
       THEN /\ cur' = Head(input_queue)
            /\ input_queue' = Tail(input_queue)
            /\ passed' = passed \cup {Head(input_queue)}
            /\ pc' = "hm_entry"
       ELSE /\ pc' = "run_finally"
            /\ UNCHANGED <<cur, input_queue, passed>>
    /\ UNCHANGED <<envVars, call, exc, workerVars, busVars, committed, enqueued, bus_processed,
                   out, msg, success, sigCount, invoked, okSet, failSet, raisedEver,
                   commitIssued, finallyStops, stopAt>>

\* mutant: the in-memory bus pops the newest message (pop() for pop(0))
MockLoop_PopsLast ==
    /\ pc = "loop"
    /\ busKind = "mock"
    /\ IF running /\ input_queue # <<>>
       THEN /\ cur' = input_queue[Len(input_queue)]
            /\ input_queue' = SubSeq(input_queue, 1, Len(input_queue) - 1)
            /\ passed' = passed \cup {input_queue[Len(input_queue)]}
            /\ pc' = "hm_entry"
       ELSE /\ pc' = "run_finally"
            /\ UNCHANGED <<cur, input_queue, passed>>
    /\ UNCHANGED <<envVars, call, exc, workerVars, busVars, committed, enqueued, bus_processed,
                   out, msg, success, sigCount, invoked, okSet, failSet, raisedEver,
                   commitIssued, finallyStops, stopAt>>

\* InMemoryMessageBus.consume: `while self._running.is_set() and self._input_queue:`
\* pop(0) and call the handler; otherwise consume returns
MockLoop ==
    /\ pc = "loop"
    /\ busKind = "mock"
    /\ IF running /\ input_queue # <<>>
       THEN /\ cur' = Head(input_queue)
            /\ input_queue' = Tail(input_queue)
            /\ passed' = passed \cup {Head(input_queue)}
            /\ pc' = "hm_entry"
       ELSE /\ pc' = "run_finally"
            /\ UNCHANGED <<cur, input_queue, passed>>
    /\ UNCHANGED <<envVars, call, exc, workerVars, busVars, committed, enqueued, bus_processed,
                   out, msg, success, sigCount, invoked, okSet, failSet, raisedEver,
                   commitIssued, finallyStops, stopAt>>

\* mutant: a failed message is put back at the head of the queue
MockAfterHandler_RequeueHead ==
    /\ pc = "after_handler"
    /\ busKind = "mock"
    /\ IF success = "true"
       THEN bus_processed' = bus_processed + 1 /\ input_queue' = input_queue
       ELSE bus_processed' = bus_processed /\ input_queue' = <<cur>> \o input_queue
    /\ pc' = IF MaxReached(consume_max, bus_processed') THEN "run_finally" ELSE "loop"
    /\ cur' = NoMsg
    /\ success' = "none"
    /\ UNCHANGED <<envVars, call, exc, workerVars, busVars, committed, enqueued, out, msg,
                   sigCount, histVars, stopAt>>

\* mutant: a message whose handler failed is not put back
MockAfterHandler_DropsFailed ==
    /\ pc = "after_handler"
    /\ busKind = "mock"
    /\ bus_processed' = IF success = "true" THEN bus_processed + 1 ELSE bus_processed
    /\ input_queue' = input_queue
    /\ pc' = IF MaxReached(consume_max, bus_processed') THEN "run_finally" ELSE "loop"
    /\ cur' = NoMsg
    /\ success' = "none"
    /\ UNCHANGED <<envVars, call, exc, workerVars, busVars, committed, enqueued, out, msg,
                   sigCount, histVars, stopAt>>

\* mutant: every message is put back after its handler call, the successful
\* ones too
MockAfterHandler_RequeuesAlways ==
    /\ pc = "after_handler"
    /\ busKind = "mock"
    /\ bus_processed' = IF success = "true" THEN bus_processed + 1 ELSE bus_processed
    /\ input_queue' = Append(input_queue, cur)
    /\ pc' = IF MaxReached(consume_max, bus_processed') THEN "run_finally" ELSE "loop"
    /\ cur' = NoMsg
    /\ success' = "none"
    /\ UNCHANGED <<envVars, call, exc, workerVars, busVars, committed, enqueued, out, msg,
                   sigCount, histVars, stopAt>>

\* after the handler call: an exception counts as failure (_handle_failure
\* returns False); success counts, failure requeues at the tail; then the
\* max_messages break
MockAfterHandler ==
    /\ pc = "after_handler"
    /\ busKind = "mock"
    /\ IF success = "true"
       THEN bus_processed' = bus_processed + 1 /\ input_queue' = input_queue
       ELSE bus_processed' = bus_processed /\ input_queue' = Append(input_queue, cur)
    /\ pc' = IF MaxReached(consume_max, bus_processed') THEN "run_finally" ELSE "loop"
    /\ cur' = NoMsg
    /\ success' = "none"
    /\ UNCHANGED <<envVars, call, exc, workerVars, busVars, committed, enqueued, out, msg,
                   sigCount, histVars, stopAt>>

\* ------------------------------------------- KafkaWorker._handle_message
\* mutant: _handle_message without the `if self._stopped` guard
HandleMessageEntry_NoStopCheck ==
    /\ pc = "hm_entry"
    /\ invoked' = invoked \cup {cur}
    /\ pc' = "hm_processor"
    /\ UNCHANGED <<envVars, call, exc, workerVars, busVars, committed, input_queue, enqueued,
                   bus_processed, out, msg, cur, success, sigCount, passed, okSet, failSet,
                   raisedEver, commitIssued, finallyStops, stopAt>>

\* `if self._stopped: return False`; otherwise parse the payload, merge the
\* metadata and call the processor
HandleMessageEntry ==
    /\ pc = "hm_entry"
    /\ IF stopped
       THEN /\ success' = "false"
            /\ failSet' = failSet \cup {cur}
            /\ pc' = "after_handler"
            /\ invoked' = invoked
       ELSE /\ invoked' = invoked \cup {cur}
            /\ pc' = "hm_processor"
            /\ UNCHANGED <<success, failSet>>
    /\ UNCHANGED <<envVars, call, exc, workerVars, busVars, committed, input_queue, enqueued,
                   bus_processed, out, msg, cur, sigCount, passed, okSet, raisedEver,
                   commitIssued, finallyStops, stopAt>>

\* the processor returns its text (or None, which becomes '')
ProcessorReturns ==
    /\ pc = "hm_processor"
    /\ pc' = "hm_produce"
    /\ UNCHANGED <<envVars, call, exc, workerVars, busVars, committed, input_queue, enqueued,
                   bus_processed, out, msg, cur, success, sigCount, histVars, stopAt>>

\* mutant: the processed counter is incremented before the processor is called
ProcessorRaises_CountsMessage ==
    /\ pc = "hm_processor"
    /\ success' = "raised"
    /\ failSet' = failSet \cup {cur}
    /\ raisedEver' = TRUE
    /\ processed' = processed + 1
    /\ pc' = "after_handler"
    /\ UNCHANGED <<envVars, call, exc, stopped, busVars, committed, input_queue, enqueued,
                   bus_processed, out, msg, cur, sigCount, passed, invoked, okSet,
                   commitIssued, finallyStops, stopAt>>

\* the processor raises: the exception leaves _handle_message
ProcessorRaises ==
    /\ pc = "hm_processor"
    /\ success' = "raised"
    /\ failSet' = failSet \cup {cur}
    /\ raisedEver' = TRUE
    /\ pc' = "after_handler"
    /\ UNCHANGED <<envVars, call, exc, workerVars, busVars, committed, input_queue, enqueued,
                   bus_processed, out, msg, cur, sigCount, passed, invoked, okSet,
                   commitIssued, finallyStops, stopAt>>

\* mutant: the in-memory bus inserts the new entry at the head of the topic list
Produce_Prepends ==
    /\ pc = "hm_produce"
    /\ out' = <<cur>> \o out
    /\ pc' = "hm_count"
    /\ UNCHANGED <<envVars, call, exc, workerVars, busVars, committed, input_queue, enqueued,
                   bus_processed, msg, cur, success, sigCount, histVars, stopAt>>

\* self.bus.produce(output_topic, {'response_text': ...}, headers): the
\* output is appended to the topic (in-memory) or handed to the producer
\* (real).  The `if self.producer is None: self.start()` of
\* KafkaMessageBus.produce never applies here: the producer exists from
\* bus.start() on (TypeOK).
Produce ==
    /\ pc = "hm_produce"
    /\ out' = Append(out, cur)
    /\ pc' = "hm_count"
    /\ UNCHANGED <<envVars, call, exc, workerVars, busVars, committed, input_queue, enqueued,
                   bus_processed, msg, cur, success, sigCount, histVars, stopAt>>

\* mutant: produce logs the BufferError and returns
ProduceRaises_Swallowed ==
    /\ pc = "hm_produce"
    /\ busKind = "kafka"
    /\ pc' = "hm_count"
    /\ handles' = [handles EXCEPT !.bufferErrors = @ + 1]
    /\ UNCHANGED <<envVars, call, exc, workerVars, running, consumer, producer, position,
                   flushed, busStopCalls, committed, input_queue, enqueued, bus_processed,
                   out, msg, cur, success, sigCount, histVars, stopAt>>

\* KafkaMessageBus.produce: the producer's local queue is full, BufferError
\* is logged and re-raised, and leaves _handle_message
ProduceRaises ==
    /\ pc = "hm_produce"
    /\ busKind = "kafka"
    /\ success' = "raised"
    /\ failSet' = failSet \cup {cur}
    /\ raisedEver' = TRUE
    /\ pc' = "after_handler"
    /\ handles' = [handles EXCEPT !.bufferErrors = @ + 1]
    /\ UNCHANGED <<envVars, call, exc, workerVars, running, consumer, producer, position,
                   flushed, busStopCalls, committed, input_queue, enqueued, bus_processed,
                   out, msg, cur, sigCount, passed, invoked, okSet, commitIssued,
                   finallyStops, stopAt>>

\* mutant: the maximum is compared with > instead of >=
HandleMessageCount_OffByOne ==
    /\ pc = "hm_count"
    /\ processed' = processed + 1
    /\ IF max_messages.given /\ processed + 1 > max_messages.val
       THEN WorkerStop
       ELSE UNCHANGED <<stopped, stopAt>> /\ NoBusStop
    /\ success' = "true"
    /\ okSet' = okSet \cup {cur}
    /\ pc' = "after_handler"
    /\ UNCHANGED <<envVars, call, exc, producer, position, committed, input_queue, enqueued,
                   bus_processed, out, msg, cur, sigCount, passed, invoked, failSet,
                   raisedEver, commitIssued, finallyStops>>

\* self._processed += 1; stop() when max_messages is reached; return True
HandleMessageCount ==
    /\ pc = "hm_count"
    /\ processed' = processed + 1
    /\ IF MaxReached(max_messages, processed + 1)
       THEN WorkerStop
       ELSE UNCHANGED <<stopped, stopAt>> /\ NoBusStop
    /\ success' = "true"
    /\ okSet' = okSet \cup {cur}
    /\ pc' = "after_handler"
    /\ UNCHANGED <<envVars, call, exc, producer, position, committed, input_queue, enqueued,
                   bus_processed, out, msg, cur, sigCount, passed, invoked, failSet,
                   raisedEver, commitIssued, finallyStops>>

\* ------------------------------------------------------------------ Spec
Next ==
    \/ EnqueueInput
    \/ Signal
    \/ Run
    \/ RunStart
    \/ ConsumeEntry
    \/ KafkaLoop
    \/ PollRaises
    \/ PollNone
    \/ PollError
    \/ PollNoValue
    \/ PollValue
    \/ HandleMessageEntry
    \/ ProcessorReturns
    \/ ProcessorRaises
    \/ Produce
    \/ ProduceRaises
    \/ HandleMessageCount
    \/ KafkaHandlerRaised
    \/ KafkaNoCommit
    \/ KafkaCommit
    \/ KafkaCommitFails
    \/ KafkaConsumeStop
    \/ MockLoop
    \/ MockAfterHandler
    \/ RunFinally

Spec == Init /\ [][Next]_vars

\* The worker over the in-memory bus (MESSAGE_BUS_MODE=mock), with the
\* thread that runs run() always taking its next step: the interpreter keeps
\* executing it, and a processor call ends by returning or raising.
MockInit == Init /\ busKind = "mock"

MockMain ==
    \/ Run
    \/ RunStart
    \/ ConsumeEntry
    \/ MockLoop
    \/ HandleMessageEntry
    \/ ProcessorReturns
    \/ ProcessorRaises
    \/ Produce
    \/ HandleMessageCount
    \/ MockAfterHandler
    \/ RunFinally

MockNext == EnqueueInput \/ Signal \/ MockMain

MockSpec == MockInit /\ [][MockNext]_vars /\ WF_vars(MockMain)

\* ================================================================ claims
Range(s) == {s[i] : i \in 1..Len(s)}

\* the thread is inside the consume loop (from the loop check to the commit
\* or requeue decision)
LoopPcs == {"loop", "poll", "hm_entry", "hm_processor", "hm_produce", "hm_count",
            "after_handler"}

\* bus.start() of this run returned normally
StartSucceeded == pc \notin {"created", "run_start", "start_failed"}

\* the shape of the state
TypeOK ==
    /\ pc \in {"created", "run_start", "consume_entry", "loop", "poll", "hm_entry",
               "hm_processor", "hm_produce", "hm_count", "after_handler",
               "consume_stop", "run_finally", "done", "failed", "start_failed"}
    /\ consumer \in {"none", "open", "closed"}
    /\ producer \in {"none", "open"}
    /\ success \in {"none", "true", "false", "raised"}
    /\ position \in 0..Len(log)
    /\ committed \in 0..Len(log)
    /\ flushed \in 0..Len(out)
    /\ sigCount \in 0..MaxSignals
    /\ (busKind = "kafka" /\ pc \in LoopPcs) => (producer = "open" /\ consumer # "none")

\* C1 (as stated): on the real transport the committed offset of the
\* partition never advances past a message whose handler call returned false
\* or raised until a handler call for that message has returned true.
C1_UncommittedUntilSuccess ==
    busKind = "kafka" => \A o \in failSet \ okSet : committed <= o

\* messages that were put back after a failed handler call and have not been
\* passed to the handler again
PendingRetry == Range(input_queue) \cap failSet

\* C2 (as stated): on the in-memory bus every message whose handler call
\* returned false or raised is handled again later, so none is left waiting
\* for its retry when the run is over.
C2_FailedHandledAgain ==
    (busKind = "mock" /\ pc \in {"done", "failed"}) => PendingRetry = {}

\* C2 (amended): on the in-memory bus a message whose handler call returned
\* false or raised is appended to the tail of the input queue, and it is
\* passed to the handler again unless the bus is stopped (or max_messages is
\* reached) first; a message whose handler call returned true is not put
\* back, is not in the queue, and is never passed to the handler again.
C2_RequeueAtTail ==
    /\ [][ (busKind = "mock" /\ pc = "after_handler" /\ pc' # pc) =>
              IF success = "true"
              THEN input_queue' = input_queue /\ cur \notin Range(input_queue')
              ELSE input_queue' = Append(input_queue, cur)
         ]_vars
    /\ [][ (busKind = "mock" /\ pc' = "hm_entry" /\ pc # "hm_entry") =>
              cur' \notin okSet ]_vars
    /\ [](busKind = "mock" => okSet \cap Range(input_queue) = {})
    /\ \A m \in 0..(MaxQueue - 1) :
          (busKind = "mock" /\ m \in PendingRetry)
              ~> \/ pc = "hm_entry" /\ cur = m
                 \/ ~running
                 \/ MaxReached(consume_max, bus_processed)

\* C2 witness: a message that failed before is passed to the handler again
\* while another one, handled with success, is gone from the queue
C2_Witness ==
    /\ busKind = "mock"
    /\ pc = "hm_entry"
    /\ cur \in failSet
    /\ okSet # {}
    /\ running

\* C3: in KafkaMessageBus.consume a commit is issued for a polled message
\* only if its handler call returned true, it is issued for every message
\* whose handler call returned true, and it is issued before the loop comes
\* back to its check and the next poll; a message whose handler call returned
\* false or raised gets no commit.
C3_CommitIffTrue ==
    busKind = "kafka" =>
        /\ commitIssued \subseteq okSet
        /\ \A o \in okSet :
              o \in commitIssued \/ (pc = "after_handler" /\ cur = o /\ success = "true")
        /\ \A o \in failSet \ okSet : o \notin commitIssued
        /\ (pc = "after_handler" /\ success # "true") => cur \notin commitIssued

\* C3 witness: the loop is about to poll again after one message was handled
\* with a true result and committed and another one failed without a commit
C3_Witness ==
    /\ busKind = "kafka"
    /\ pc = "poll"
    /\ okSet # {}
    /\ commitIssued = okSet
    /\ failSet \ okSet # {}

\* C4: a failure local to one message does not end the consume loop.  (a) The
\* step that handles a handler result (exception, false, or true with a
\* failing commit) leaves the running flag as it is and goes back to the loop
\* check, and so does a poll that returned nothing, a broker error or a
\* message without value.  (b) At the loop check a Running bus goes on to
\* poll (real) or, with a non-empty queue, to pop (in-memory).  (c) The loop is
\* left only with the bus stopped or, on the in-memory bus, with the queue
\* drained or max_messages reached.
C4_Contained ==
    [][ /\ (pc = "after_handler" /\ pc' # pc) =>
              /\ running' = running
              /\ pc' = "loop" \/ (busKind = "mock" /\ MaxReached(consume_max, bus_processed'))
        /\ (pc = "poll" /\ pc' # pc /\ msg' \in {"None", "error", "novalue"} /\ consumer = "open") =>
              (running' = running /\ pc' = "loop")
        /\ (pc = "loop" /\ pc' # pc /\ running /\ (busKind = "kafka" \/ input_queue # <<>>)) =>
              pc' \in {"poll", "hm_entry"}
        /\ (pc \in LoopPcs /\ pc' \notin LoopPcs) =>
              \/ ~running
              \/ /\ busKind = "mock"
                 /\ input_queue = <<>> \/ MaxReached(consume_max, bus_processed')
      ]_vars

\* C4 witness: the real bus is Running and about to poll again after a handler
\* call raised and a poll returned a broker error
C4_Witness ==
    /\ busKind = "kafka"
    /\ pc = "poll"
    /\ running
    /\ raisedEver
    /\ msg = "error"

\* C5 (as stated): consume never returns while the bus is still Running
\* (pc = "run_finally" without a pending exception is the state right after
\* consume has returned to run()).
C5_ReturnsOnlyStopped ==
    (pc = "run_finally" /\ ~exc) => ~running

\* C5 (amended): KafkaMessageBus.consume returns only with the bus Stopped;
\* InMemoryMessageBus.consume returns with the bus Stopped, or with the bus
\* still Running when its input queue is empty or max_messages is reached.
C5_ReturnsStoppedOrDrained ==
    (pc = "run_finally" /\ ~exc) =>
        \/ ~running
        \/ /\ busKind = "mock"
           /\ input_queue = <<>> \/ MaxReached(consume_max, bus_processed)

\* C5 witness: KafkaMessageBus.consume has returned after handling a message
C5_Witness ==
    /\ busKind = "kafka"
    /\ pc = "run_finally"
    /\ ~exc
    /\ ~running
    /\ okSet # {}

\* C6: once KafkaWorker.stop() has been called, a call of _handle_message
\* returns false without invoking the processor, producing or counting; no
\* processor invocation starts after stop(), and the only output produced
\* after stop() is the one of the call that was in flight when stop() was
\* called.
C6_NoProgressAfterStop ==
    /\ [][ (pc = "hm_entry" /\ stopped /\ pc' # pc) =>
              /\ success' = "false"
              /\ pc' = "after_handler"
              /\ invoked' = invoked
              /\ out' = out
              /\ processed' = processed
         ]_vars
    /\ [](stopped =>
              /\ stopAt.taken
              /\ invoked = stopAt.invoked
              /\ Len(out) <= stopAt.produced + 1
              /\ Len(out) > stopAt.produced =>
                    (stopAt.inflight # NoMsg /\ out[Len(out)] = stopAt.inflight))

\* C6 witness: a call of _handle_message made after stop() has returned
\* false for a message the processor never saw
C6_Witness ==
    /\ stopped
    /\ pc = "after_handler"
    /\ success = "false"
    /\ cur \notin invoked

\* C7 (as stated): after a termination signal delivered at any point of
\* run(), the consume loop exits at its next iteration check.
C7_LoopExitsAfterSignal ==
    [][ (sigCount > 0 /\ pc = "loop" /\ pc' # pc) =>
            pc' \in {"consume_stop", "run_finally"} ]_vars

\* the precondition of the bounded run: in-memory bus, max_messages = N >= 1,
\* more than N messages enqueued, no handler call raised, no signal delivered
BoundedRun ==
    /\ busKind = "mock"
    /\ max_messages.given
    /\ max_messages.val >= 1
    /\ enqueued > max_messages.val
    /\ ~raisedEver
    /\ sigCount = 0

\* C8: a bounded run (max_messages = N >= 1, more than N inbound messages on
\* the in-memory bus, a handler that never raises) ends run() with exactly N
\* outputs, the worker stopped, and the remaining messages still in the input
\* queue, in order, never passed to the handler.
C8_BoundedRun ==
    (BoundedRun /\ pc \in {"done", "failed"}) =>
        /\ pc = "done"
        /\ Len(out) = max_messages.val
        /\ out = [i \in 1..max_messages.val |-> i - 1]
        /\ stopped
        /\ ~running
        /\ input_queue = [i \in 1..(enqueued - max_messages.val) |-> max_messages.val + i - 1]
        /\ passed = 0..(max_messages.val - 1)

\* C8 witness: the run with max_messages = 2 over three messages has ended
C8_Witness ==
    /\ BoundedRun
    /\ pc = "done"
    /\ max_messages.val = 2
    /\ enqueued = 3

\* C9 (as stated): for every supplied integer maximum, the number of handler
\* calls that led to a produced output never exceeds that maximum.
C9_NeverMoreThanMax ==
    max_messages.given => Len(out) <= max_messages.val

\* C10 (as stated): when run() exits after bus.start() succeeded, bus.stop()
\* has been called exactly once during the run.
C10_StopCalledOnce ==
    (pc \in {"done", "failed"} /\ StartSucceeded) => busStopCalls = 1

\* C10 (amended): when run() exits after bus.start() succeeded, the finally
\* clause of run() has called bus.stop() exactly once and the bus is Stopped;
\* bus.stop() is called at least once and at most three times in the run (the
\* others by KafkaWorker.stop() and by the trailing stop of
\* KafkaMessageBus.consume).  If bus.start() raised, bus.stop() is not called
\* by run().
C10_FinallyStopsOnce ==
    /\ (pc \in {"done", "failed"} /\ StartSucceeded) =>
          /\ finallyStops = 1
          /\ busStopCalls >= 1
          /\ busStopCalls <= 3
          /\ ~running
    /\ (pc \in LoopPcs \cup {"consume_entry", "consume_stop", "run_finally",
                           "start_failed"}) =>
          finallyStops = 0

\* C10 witness: run() has exited with the exception that left consume, after
\* the finally clause stopped the bus
C10_Witness ==
    /\ pc = "failed"
    /\ StartSucceeded
    /\ finallyStops = 1


\* ------------------------------------------------- the bus driven directly
\* bounds of the direct calls
MaxStarts == 3
MaxStops == 3
MaxProduce == 2

\* a caller that owns the bus and no worker: start(), stop(), produce() and
\* enqueue_input() in any order
BusInit == Init /\ max_messages = NoMax /\ log = <<>>

\* mutant: start() on the in-memory bus empties the input queue and the topics
ApiStart_ResetsQueues ==
    /\ pc = "created"
    /\ handles.starts < MaxStarts
    /\ \E o \in StartOutcomes : BusStart(o)
    /\ input_queue' = IF busKind = "mock" THEN <<>> ELSE input_queue
    /\ out' = IF busKind = "mock" THEN <<>> ELSE out
    /\ UNCHANGED <<envVars, call, pc, exc, workerVars, flushed, busStopCalls, committed,
                   enqueued, bus_processed, msg, cur, success, sigCount, histVars, stopAt>>

\* bus.start()
ApiStart ==
    /\ pc = "created"
    /\ handles.starts < MaxStarts
    /\ \E o \in StartOutcomes : BusStart(o)
    /\ UNCHANGED <<envVars, call, pc, exc, workerVars, flushed, busStopCalls, committed,
                   input_queue, enqueued, bus_processed, out, msg, cur, success, sigCount,
                   histVars, stopAt>>

\* bus.stop()
ApiStop ==
    /\ pc = "created"
    /\ busStopCalls < MaxStops
    /\ BusStop
    /\ UNCHANGED <<envVars, call, pc, exc, workerVars, producer, position, committed,
                   input_queue, enqueued, bus_processed, out, msg, cur, success, sigCount,
                   histVars, stopAt>>

\* bus.produce(topic, message).  Kafka: `if self.producer is None:
\* self.start()`, whose exception leaves produce; then the message is handed
\* to the producer.  Mock: appended to the topic's list.
ApiProduce ==
    /\ pc = "created"
    /\ Len(out) < MaxProduce
    /\ IF busKind = "kafka" /\ producer = "none"
       THEN /\ handles.starts < MaxStarts
            /\ \E o \in StartOutcomes :
                  /\ BusStart(o)
                  /\ out' = IF BusStartRaises(o) THEN out ELSE Append(out, Len(out))
       ELSE /\ out' = Append(out, Len(out))
            /\ UNCHANGED <<running, consumer, producer, position, handles>>
    /\ UNCHANGED <<envVars, call, pc, exc, workerVars, flushed, busStopCalls, committed,
                   input_queue, enqueued, bus_processed, msg, cur, success, sigCount,
                   histVars, stopAt>>

\* bus.consume(handler, max_messages=m) called by the owner of the bus; the
\* call's steps are ConsumeEntry, MockLoop and MockAfterHandler
ApiConsume(m) ==
    /\ pc = "created"
    /\ running \/ handles.starts < MaxStarts
    /\ consume_max' = m
    /\ pc' = "consume_entry"
    /\ UNCHANGED <<busKind, libAvailable, max_messages, log, config, memory, call, exc,
                   workerVars,
                   busVars, committed, input_queue, enqueued, bus_processed, out, msg, cur,
                   success, sigCount, histVars, stopAt>>

\* the handler passed to consume, any callable: it returns true, returns
\* false or raises
GenericHandler ==
    /\ pc = "hm_entry"
    /\ \E r \in {"true", "false", "raised"} :
          /\ success' = r
          /\ okSet' = IF r = "true" THEN okSet \cup {cur} ELSE okSet
          /\ failSet' = IF r = "true" THEN failSet ELSE failSet \cup {cur}
          /\ raisedEver' = (raisedEver \/ r = "raised")
    /\ pc' = "after_handler"
    /\ UNCHANGED <<envVars, call, exc, workerVars, busVars, committed, input_queue, enqueued,
                   bus_processed, out, msg, cur, sigCount, passed, invoked, commitIssued,
                   finallyStops, stopAt>>

\* the handler calls bus.stop() before it returns
HandlerStops ==
    /\ pc = "hm_entry"
    /\ busStopCalls < MaxStops
    /\ BusStop
    /\ UNCHANGED <<envVars, call, pc, exc, workerVars, producer, position, committed,
                   input_queue, enqueued, bus_processed, out, msg, cur, success, sigCount,
                   histVars, stopAt>>

\* consume has left its loop and returns to the caller
ConsumeReturns ==
    /\ pc = "run_finally"
    /\ pc' = "created"
    /\ UNCHANGED <<envVars, call, exc, workerVars, busVars, committed, input_queue, enqueued,
                   bus_processed, out, msg, cur, success, sigCount, histVars, stopAt>>

BusNext == ApiStart \/ ApiStop \/ ApiProduce \/ EnqueueInput

\* the in-memory bus and a caller that enqueues and consumes with a handler of
\* its own
ConsumeInit == BusInit /\ busKind = "mock"

ConsumeNext ==
    \/ EnqueueInput
    \/ \E m \in MaxValues : ApiConsume(m)
    \/ ConsumeEntry
    \/ MockLoop
    \/ GenericHandler
    \/ HandlerStops
    \/ MockAfterHandler
    \/ ConsumeReturns

ConsumeSpec == ConsumeInit /\ [][ConsumeNext]_vars

BusSpec == BusInit /\ [][BusNext]_vars

\* C11: on both buses start() in state Running and stop() in state Stopped
\* return normally and change nothing of the bus (no consumer or producer is
\* constructed, closed or flushed); stop() in state Running on the Kafka bus
\* closes the consumer once and flushes the producer once, so of two stop()
\* calls in a row only the first does.
C11_IdempotentLifecycle ==
    [][/\ (handles'.starts # handles.starts /\ running) =>
            /\ ~handles'.startRaised
            /\ handles' = [handles EXCEPT !.starts = @ + 1, !.startRaised = FALSE]
            /\ UNCHANGED <<running, consumer, producer, position, flushed>>
       /\ (busStopCalls' # busStopCalls /\ ~running) =>
            UNCHANGED <<running, consumer, producer, position, flushed, handles>>
       /\ (busStopCalls' # busStopCalls /\ running /\ busKind = "kafka") =>
            /\ ~running'
            /\ consumer' = "closed"
            /\ flushed' = Len(out)
            /\ handles' = [handles EXCEPT !.closes = @ + 1, !.flushes = @ + 1]
      ]_vars

\* C11 witness: the Kafka bus after start(); start(); stop(); stop(): one
\* consumer and one producer constructed, one close and one flush
C11_Witness ==
    /\ busKind = "kafka"
    /\ pc = "created"
    /\ handles.starts = 2
    /\ busStopCalls = 2
    /\ ~running
    /\ handles.consumers = 1
    /\ handles.producers = 1
    /\ handles.closes = 1
    /\ handles.flushes = 1

\* --------------------------------------------- the worker driven by an owner
\* run() is called again only while bus.start() was called this often at most
MaxReruns == 1

\* KafkaWorker.stop() called while run() is not executing: by the owner before
\* or after run(), or by a signal handler that run() left installed
StopCall ==
    /\ pc \in {"created", "done", "failed", "start_failed"}
    /\ WorkerStop
    /\ UNCHANGED <<envVars, call, pc, exc, processed, producer, position, committed,
                   input_queue, enqueued, bus_processed, out, msg, cur, success, sigCount,
                   histVars>>

\* run() called again on the same worker after an earlier run() has exited
RunAgain ==
    /\ pc \in {"done", "failed", "start_failed"}
    /\ handles.starts <= MaxReruns
    /\ pc' = "run_start"
    /\ exc' = FALSE
    /\ UNCHANGED <<envVars, call, workerVars, busVars, committed, input_queue, enqueued,
                   bus_processed, out, msg, cur, success, sigCount, histVars, stopAt>>

LifecycleNext == Next \/ StopCall \/ RunAgain

LifecycleSpec == Init /\ [][LifecycleNext]_vars

\* C12: the stopped flag of the worker never returns to false; a stop() on a
\* stopped worker does not call bus.stop() (once the worker is stopped only
\* consume and run()'s finally clause call it); a _handle_message call on a
\* stopped worker returns false without invoking the processor or producing,
\* also in a run() entered after stop().
C12_StoppedIsTerminal ==
    [][/\ stopped => stopped'
       /\ (stopped /\ busStopCalls' # busStopCalls) =>
            (pc \in {"consume_stop", "run_finally"} /\ pc' # pc)
       /\ (stopped /\ pc = "hm_entry" /\ pc' # pc) =>
            /\ pc' = "after_handler"
            /\ success' = "false"
            /\ invoked' = invoked
            /\ out' = out
       /\ (stopped /\ pc' = "hm_processor") => pc = "hm_processor"
      ]_vars

\* C12 witness: stop() was called before run(); in the run that followed a
\* message was passed to _handle_message, which returned false
C12_Witness ==
    /\ stopped
    /\ sigCount = 0
    /\ processed = 0
    /\ stopAt.produced = 0
    /\ pc = "after_handler"
    /\ success = "false"
    /\ invoked = {}

\* C13: on the Kafka bus every record passed to the handler has a higher
\* offset than all records passed before it, and when it is polled every
\* earlier record has been handled to completion: none is in hand, each has an
\* outcome and each that returned true has had its commit issued.  Commits are
\* issued for the record in hand only, in increasing offset order, and the
\* committed offset never moves back.
C13_InOrderOneAtATime ==
    [][/\ (busKind = "kafka" /\ pc = "poll" /\ pc' = "hm_entry") =>
            /\ cur = NoMsg
            /\ success = "none"
            /\ cur' = position
            /\ \A o \in passed : o < cur'
            /\ passed \subseteq (okSet \cup failSet)
            /\ okSet \subseteq commitIssued
       /\ (commitIssued' # commitIssued) =>
            /\ cur \in passed
            /\ commitIssued' = commitIssued \cup {cur}
            /\ \A o \in commitIssued : o < cur
       /\ committed' >= committed
      ]_vars

\* C13 witness: the third record is passed to the handler after the commits for
\* the first two were issued
C13_Witness ==
    /\ busKind = "kafka"
    /\ pc = "hm_entry"
    /\ cur = 2
    /\ commitIssued = {0, 1}

\* C14: on the Kafka bus, when run() has returned (or raised out of consume),
\* a producer flush has happened after every produce the worker made.
C14_FlushedBeforeReturn ==
    (busKind = "kafka" /\ pc \in {"done", "failed"}) => flushed = Len(out)

\* C15: when bus.start() raises, the bus is not Running and the exception is
\* leaving run() (directly when run() called start, through the finally clause
\* when consume called it); when run()'s own bus.start() raised, start was
\* called once, consume and the handler were never entered, and run()'s finally
\* clause did not run.
C15_StartFailureIsFatal ==
    /\ handles.startRaised =>
          /\ ~running
          /\ exc
          /\ pc \in {"start_failed", "run_finally", "failed"}
    /\ pc = "start_failed" =>
          /\ handles.startRaised
          /\ handles.starts = 1
          /\ passed = {}
          /\ invoked = {}
          /\ out = <<>>
          /\ finallyStops = 0

\* C15 witness: run() has raised what KafkaMessageBus.start() raised
C15_Witness ==
    /\ busKind = "kafka"
    /\ pc = "start_failed"
    /\ handles.startRaised
    /\ handles.starts = 1

\* C16: a produce call that raises BufferError appends nothing to the output
\* topic and leaves _handle_message as an exception: the processed counter is
\* not incremented; the Kafka consume loop then issues no commit for the
\* message, leaves the committed offset alone, lets no exception out and goes
\* back to its loop check, from which it polls again while the bus is Running.
C16_BackPressure ==
    [][/\ (handles'.bufferErrors # handles.bufferErrors) =>
            /\ pc = "hm_produce"
            /\ pc' = "after_handler"
            /\ success' = "raised"
            /\ out' = out
            /\ processed' = processed
            /\ okSet' = okSet
       /\ (busKind = "kafka" /\ pc = "after_handler" /\ success = "raised" /\ pc' # pc) =>
            /\ pc' = "loop"
            /\ exc' = exc
            /\ commitIssued' = commitIssued
            /\ committed' = committed
            /\ processed' = processed
       /\ (busKind = "kafka" /\ pc = "loop" /\ running /\ pc' # pc) => pc' = "poll"
      ]_vars

\* C16 witness: the produce for the first record raised BufferError and the
\* loop is polling again, nothing processed and nothing committed
C16_Witness ==
    /\ busKind = "kafka"
    /\ handles.bufferErrors = 1
    /\ pc = "poll"
    /\ passed = {0}
    /\ processed = 0
    /\ commitIssued = {}
    /\ out = <<>>

\* ------------------------------------------- one _handle_message call, pure
\* Python values: a key that a mapping does not have, and None
Absent == "<absent>"
None == "<None>"

\* d.get(key) for the entry v of a mapping
Get(v) == IF v = Absent THEN None ELSE v

\* bool(v) for None and strings
Truthy(v) == v \notin {Absent, None, ""}

\* Python's `a or b`
Or(a, b) == IF Truthy(a) THEN a ELSE b

IdKeys == {"request_id", "bot_id", "chat_id"}
Hyphen(k) == CASE k = "request_id" -> "request-id"
               [] k = "bot_id" -> "bot-id"
               [] k = "chat_id" -> "chat-id"
HeaderKeys == IdKeys \cup {Hyphen(k) : k \in IdKeys}

\* a non-empty value for each header key, all different
HeaderValue(k) == CASE k = "request_id" -> "r1" [] k = "request-id" -> "r2"
                    [] k = "bot_id" -> "b1" [] k = "bot-id" -> "b2"
                    [] k = "chat_id" -> "c1" [] k = "chat-id" -> "c2"

\* inbound headers: every key is absent, empty or non-empty
Headers ==
    {[k \in HeaderKeys |-> CASE sel[k] = "absent" -> Absent
                             [] sel[k] = "empty" -> ""
                             [] sel[k] = "set" -> HeaderValue(k)] :
        sel \in [HeaderKeys -> {"absent", "empty", "set"}]}

\* the user_id / session_id entries of the transport metadata (the mapping the
\* bus passes to the handler; the Kafka bus never sets them, enqueue_input may)
Transports == [user_id : {Absent, "uT"}, session_id : {Absent, "sT"}]

\* the user_id / session_id entries of a metadata object embedded in the payload
EmbeddedDicts == [user_id : {Absent, None, "uY"}, session_id : {Absent, None, "sY"}]
EmptyDict == [user_id |-> Absent, session_id |-> Absent]

\* the `metadata` field of a JSON object payload: absent, not an object, or an
\* object
MetaFields ==
    {[kind |-> "absent", dict |-> EmptyDict], [kind |-> "notdict", dict |-> EmptyDict]}
    \cup {[kind |-> "dict", dict |-> d] : d \in EmbeddedDicts}

\* raw payload strings, by what json.loads makes of them:
\*   text    not JSON ("not json {"): JSONDecodeError
\*   deep    brackets nested deeper than the interpreter's recursion limit:
\*           RecursionError
\*   bigint  an integer literal longer than the interpreter's digit limit:
\*           ValueError
\*   string  a JSON string; other: a JSON number, list, boolean or null
\*   object  a JSON object with its request_text, message, payload and metadata
\*           fields
Blank(kind, raw) ==
    [kind |-> kind, raw |-> raw, request_text |-> Absent, message |-> Absent,
     payload |-> Absent, metadata |-> [kind |-> "absent", dict |-> EmptyDict]]
Objects ==
    [kind : {"object"}, raw : {"<object>"}, request_text : {Absent, "", "rt"},
     message : {Absent, "", "msg"}, payload : {Absent, "", "pl"}, metadata : MetaFields]
Payloads ==
    {Blank("text", "not json {"), Blank("deep", "[[[[..."), Blank("bigint", "1111..."),
     Blank("string", "\"hi\""), Blank("other", "[1]"), Blank("other", "[1,2]")}
    \cup Objects

\* json.loads(raw_payload): the exception it raises, "none" if it returns
JsonLoads(raw) ==
    CASE raw.kind = "text" -> "JSONDecodeError"
      [] raw.kind = "deep" -> "RecursionError"
      [] raw.kind = "bigint" -> "ValueError"
      [] OTHER -> "none"

\* json.dumps(parsed, ensure_ascii=False) of what json.loads returned: the
\* default separators are ", " and ": ", whatever the input's spacing was
JsonDumps(raw) ==
    CASE raw.kind = "object" -> "<dumps of object>"
      [] raw.raw = "[1,2]" -> "[1, 2]"
      [] OTHER -> raw.raw

\* mutant: the message field is looked at before request_text
ParsePayload_MessageFirst(raw) ==
    LET e == JsonLoads(raw)
        first == Or(Or(Or(Get(raw.message), Get(raw.request_text)), Get(raw.payload)), "")
    IN  CASE e = "JSONDecodeError" ->
               [raised |-> "none", text |-> raw.raw, meta |-> EmptyDict]
          [] e # "none" ->
               [raised |-> e, text |-> None, meta |-> EmptyDict]
          [] raw.kind = "object" ->
               [raised |-> "none",
                text |-> IF Truthy(first) THEN first ELSE JsonDumps(raw),
                meta |-> IF raw.metadata.kind = "dict" THEN raw.metadata.dict ELSE EmptyDict]
          [] raw.kind = "string" ->
               [raised |-> "none", text |-> "hi", meta |-> EmptyDict]
          [] OTHER ->
               [raised |-> "none", text |-> JsonDumps(raw), meta |-> EmptyDict]

\* KafkaWorker._parse_payload: only JSONDecodeError is caught
ParsePayload(raw) ==
    LET e == JsonLoads(raw)
        first == Or(Or(Or(Get(raw.request_text), Get(raw.message)), Get(raw.payload)), "")
    IN  CASE e = "JSONDecodeError" ->
               [raised |-> "none", text |-> raw.raw, meta |-> EmptyDict]
          [] e # "none" ->
               [raised |-> e, text |-> None, meta |-> EmptyDict]
          [] raw.kind = "object" ->
               [raised |-> "none",
                text |-> IF Truthy(first) THEN first ELSE JsonDumps(raw),
                meta |-> IF raw.metadata.kind = "dict" THEN raw.metadata.dict ELSE EmptyDict]
          [] raw.kind = "string" ->
               [raised |-> "none", text |-> "hi", meta |-> EmptyDict]
          [] OTHER ->
               [raised |-> "none", text |-> JsonDumps(raw), meta |-> EmptyDict]

\* mutant: the embedded user_id / session_id win over the header
MergeMetadata_EmbeddedWins(transport, payload_meta, headers) ==
    LET request_id == Or(Get(headers["request_id"]), Get(headers["request-id"]))
        bot_id == Or(Get(headers["bot_id"]), Get(headers["bot-id"]))
        chat_id == Or(Get(headers["chat_id"]), Get(headers["chat-id"]))
        merged == [k \in {"user_id", "session_id"} |->
                      IF payload_meta[k] # Absent THEN payload_meta[k] ELSE transport[k]]
    IN  [request_id |-> request_id,
         bot_id |-> bot_id,
         chat_id |-> chat_id,
         user_id |-> Or(Get(merged["user_id"]), bot_id),
         session_id |-> Or(Get(merged["session_id"]), chat_id)]

\* KafkaWorker._merge_metadata, its request_id, bot_id, chat_id, user_id and
\* session_id entries
MergeMetadata(transport, payload_meta, headers) ==
    LET request_id == Or(Get(headers["request_id"]), Get(headers["request-id"]))
        bot_id == Or(Get(headers["bot_id"]), Get(headers["bot-id"]))
        chat_id == Or(Get(headers["chat_id"]), Get(headers["chat-id"]))
        \* merged = {**metadata, **payload_meta}
        merged == [k \in {"user_id", "session_id"} |->
                      IF payload_meta[k] # Absent THEN payload_meta[k] ELSE transport[k]]
    IN  [request_id |-> request_id,
         bot_id |-> bot_id,
         chat_id |-> chat_id,
         user_id |-> Or(bot_id, Get(merged["user_id"])),
         session_id |-> Or(chat_id, Get(merged["session_id"]))]

\* mutant: the chat_id is left out of the response headers
ResponseHeaders_NoChatId(metadata) ==
    [k \in IdKeys |-> IF metadata[k] # None /\ k # "chat_id" THEN metadata[k] ELSE Absent]

\* KafkaWorker._response_headers: the identifiers that are not None
ResponseHeaders(metadata) ==
    [k \in IdKeys |-> IF metadata[k] # None THEN metadata[k] ELSE Absent]

\* what the processor (Responser.get_response) can return
Results == {None, "", "hello"}

\* KafkaSettings.output_topic
OutputTopic == "gadalka-output"

NoParsed == [raised |-> "none", text |-> None, meta |-> EmptyDict]
NoMerged == [request_id |-> None, bot_id |-> None, chat_id |-> None, user_id |-> None,
             session_id |-> None]
NoOutput == [topic |-> None, body |-> [response_text |-> None],
             headers |-> [k \in IdKeys |-> Absent]]

\* a call _handle_message(raw_payload, metadata) about to start
\* (attempt and first are history: the number of this attempt and the payload
\* and metadata the first attempt was given)
NewCall(raw, headers, transport) ==
    [stage |-> "start", raw |-> raw, headers |-> headers, transport |-> transport,
     parsed |-> NoParsed, merged |-> NoMerged, result |-> None, output |-> NoOutput,
     attempt |-> 1, first |-> [raw |-> raw, headers |-> headers, transport |-> transport]]

\* everything but call
workerState == <<envVars, pc, exc, workerVars, busVars, committed, input_queue, enqueued,
                 bus_processed, out, msg, cur, success, sigCount, histVars, stopAt>>

\* _handle_message on a worker that is not stopped: _parse_payload; what it
\* raises leaves _handle_message
HmParse ==
    /\ call.stage = "start"
    /\ ~stopped
    /\ LET p == ParsePayload(call.raw)
       IN  call' = [call EXCEPT !.parsed = p,
                                !.stage = IF p.raised = "none" THEN "parsed" ELSE "raised"]
    /\ UNCHANGED workerState

\* mutant: the merge updates the transport's metadata mapping in place
\* (`merged = metadata` in place of `merged = {**metadata, **payload_meta}`)
HmMerge_InPlace ==
    /\ call.stage = "parsed"
    /\ LET m == MergeMetadata(call.transport, call.parsed.meta, call.headers)
       IN  call' = [call EXCEPT
                      !.merged = m,
                      !.transport = [user_id |-> m.user_id, session_id |-> m.session_id],
                      !.stage = "merged"]
    /\ UNCHANGED workerState

\* _merge_metadata(metadata, payload_meta, raw_payload)
HmMerge ==
    /\ call.stage = "parsed"
    /\ call' = [call EXCEPT
                  !.merged = MergeMetadata(call.transport, call.parsed.meta, call.headers),
                  !.stage = "merged"]
    /\ UNCHANGED workerState

\* self.processor(message_text, merged_metadata) returns
HmProcessor ==
    /\ call.stage = "merged"
    /\ \E r \in Results : call' = [call EXCEPT !.result = r, !.stage = "returned"]
    /\ UNCHANGED workerState

\* self.processor(message_text, merged_metadata) raises
HmProcessorRaises ==
    /\ call.stage = "merged"
    /\ call' = [call EXCEPT !.stage = "raised"]
    /\ UNCHANGED workerState

\* result_text = ... or ''; output_body; output_headers; self.bus.produce(...):
\* both buses keep the topic, the body and the headers they are given
HmProduce ==
    /\ call.stage = "returned"
    /\ call' = [call EXCEPT
                  !.output = [topic |-> OutputTopic,
                              body |-> [response_text |-> Or(call.result, "")],
                              headers |-> ResponseHeaders(call.merged)],
                  !.stage = "produced"]
    /\ UNCHANGED workerState

\* bound on the attempts followed for one message
MaxAttempts == 2

\* InMemoryMessageBus.consume after a handler call that raised: the tuple
\* (payload, metadata) it had popped is appended to the queue, and a later
\* iteration pops it and calls the handler with these same two objects
HmRetry ==
    /\ call.stage = "raised"
    /\ busKind = "mock"
    /\ call.attempt < MaxAttempts
    /\ call' = [NewCall(call.raw, call.headers, call.transport) EXCEPT
                  !.attempt = call.attempt + 1,
                  !.first = call.first]
    /\ UNCHANGED workerState

\* the payloads of the calls followed to the end: every payload that is not an
\* object, and the objects with a request_text and any metadata field
HandlePayloads ==
    {p \in Payloads : p.kind = "object" =>
        (p.request_text = "rt" /\ p.message = Absent /\ p.payload = Absent)}

HandleInit ==
    /\ InitWorker
    /\ libAvailable
    /\ max_messages = NoMax
    /\ log = <<>>
    /\ call \in {NewCall(p, h, t) : p \in HandlePayloads, h \in Headers, t \in Transports}
    /\ config = NoConfig
    /\ memory = NoMemory

HandleNext ==
    HmParse \/ HmMerge \/ HmProcessor \/ HmProcessorRaises \/ HmProduce \/ HmRetry

HandleSpec == HandleInit /\ [][HandleNext]_vars

\* _parse_payload alone, on every payload
ParseInit ==
    /\ InitWorker
    /\ busKind = "mock"
    /\ max_messages = NoMax
    /\ call \in {NewCall(p, [k \in HeaderKeys |-> Absent], EmptyDict) : p \in Payloads}
    /\ config = NoConfig
    /\ memory = NoMemory

ParseNext == HmParse

ParseSpec == ParseInit /\ [][ParseNext]_vars

\* C17 (as stated): the output has payload {"response_text": t}, t the
\* processor's text or "" when it returned None, goes to the output topic, and
\* its headers are exactly the identifiers present in the inbound headers
\* (under the underscore name, else under the hyphen name), with their inbound
\* values.
C17_RoundTrip ==
    call.stage = "produced" =>
        /\ call.output.topic = OutputTopic
        /\ call.output.body.response_text = (IF call.result = None THEN "" ELSE call.result)
        /\ \A k \in IdKeys :
              call.output.headers[k] =
                  (IF call.headers[k] # Absent THEN call.headers[k]
                                               ELSE call.headers[Hyphen(k)])

\* C17 (amended): as above, but an identifier is taken from the underscore
\* name only when its value there is non-empty; otherwise it is taken from the
\* hyphen name when the inbound headers have that, with whatever value is
\* there; otherwise it is omitted.
C17_RoundTripNonEmpty ==
    call.stage = "produced" =>
        /\ call.output.topic = OutputTopic
        /\ call.output.body.response_text = (IF call.result = None THEN "" ELSE call.result)
        /\ \A k \in IdKeys :
              LET u == call.headers[k]
                  y == call.headers[Hyphen(k)]
              IN  /\ u \notin {Absent, ""} => call.output.headers[k] = u
                  /\ (u \in {Absent, ""} /\ y # Absent) => call.output.headers[k] = y
                  /\ (u \in {Absent, ""} /\ y = Absent) => call.output.headers[k] = Absent

\* C17 witness: inbound headers request_id = r1, bot_id = b1, chat_id = c1, the
\* processor returned "hello", and the output carries the three identifiers
C17_Witness ==
    /\ call.stage = "produced"
    /\ call.result = "hello"
    /\ \A k \in HeaderKeys :
          call.headers[k] = (IF k \in IdKeys THEN HeaderValue(k) ELSE Absent)
    /\ call.output.body.response_text = "hello"
    /\ call.output.headers = [k \in IdKeys |-> HeaderValue(k)]

\* C18 (as stated): when the inbound headers carry bot_id = X (under the
\* underscore name, else under the hyphen name) the merged user_id is X; when
\* they carry none it is the embedded metadata's user_id if that has the key,
\* else the transport metadata's.  Likewise session_id and chat_id.
C18_HeaderWins ==
    call.stage \in {"merged", "returned", "produced"} =>
        \A p \in {<<"bot_id", "user_id">>, <<"chat_id", "session_id">>} :
            LET X == IF call.headers[p[1]] # Absent THEN call.headers[p[1]]
                                                    ELSE call.headers[Hyphen(p[1])]
                kept == IF call.parsed.meta[p[2]] # Absent THEN call.parsed.meta[p[2]]
                                                           ELSE Get(call.transport[p[2]])
            IN  call.merged[p[2]] = (IF X # Absent THEN X ELSE kept)

\* C18 (amended): the header value X that counts is the underscore one when it
\* is non-empty, else the hyphen one; a non-empty X wins over the embedded and
\* the transport metadata; with X absent or empty the merged user_id is the
\* embedded metadata's entry if it has the key (also when it is null), else the
\* transport metadata's entry, else None.  Likewise session_id and chat_id.
C18_NonEmptyHeaderWins ==
    call.stage \in {"merged", "returned", "produced"} =>
        \A p \in {<<"bot_id", "user_id">>, <<"chat_id", "session_id">>} :
            LET u == call.headers[p[1]]
                X == IF u \notin {Absent, ""} THEN u ELSE call.headers[Hyphen(p[1])]
                kept == IF call.parsed.meta[p[2]] # Absent THEN call.parsed.meta[p[2]]
                                                           ELSE Get(call.transport[p[2]])
            IN  call.merged[p[2]] = (IF X \notin {Absent, ""} THEN X ELSE kept)

\* C18 witness: header bot_id = b1 and embedded user_id = uY merge to
\* user_id = b1
C18_Witness ==
    /\ call.stage = "merged"
    /\ call.headers["bot_id"] = "b1"
    /\ call.parsed.meta.user_id = "uY"
    /\ call.merged.user_id = "b1"

\* C19: for every raw payload _parse_payload returns a pair and raises
\* nothing, and for a payload that json.loads does not accept the text is the
\* raw payload and the metadata is empty.
C19_ParseNeverRaises ==
    call.stage \in {"parsed", "raised"} =>
        /\ call.stage = "parsed"
        /\ call.parsed.raised = "none"
        /\ JsonLoads(call.raw) # "none" =>
              (call.parsed.text = call.raw.raw /\ call.parsed.meta = EmptyDict)

\* C20: over either bus, as long as no handler call has failed and no stop
\* was requested, on inbound messages 0, 1, 2, ... (on the Kafka bus: a
\* partition whose records all have a value, numbered by offset; on the
\* in-memory bus: the enqueued messages, numbered in enqueue order) the
\* processor has been invoked for an initial segment 0 .. n-1 of them, one more
\* at each invocation, and the output topic holds the outputs of 0 .. m-1 in
\* that order, with m = n or, during the n-th call, m = n - 1.  Both buses
\* satisfy this one description, so they give the same sequences.
C20_SameOnBothBuses ==
    (/\ failSet = {}
     /\ ~raisedEver
     /\ ~stopped
     /\ \A i \in 1..Len(log) : log[i] = "value") =>
        /\ invoked = 0..(Cardinality(invoked) - 1)
        /\ out = [i \in 1..Len(out) |-> i - 1]
        /\ Len(out) \in {Cardinality(invoked), Cardinality(invoked) - 1}
        /\ Len(out) < Cardinality(invoked) => (pc \in {"hm_processor", "hm_produce"}
                                                /\ cur = Len(out))
        /\ (busKind = "mock" /\ pc = "done") => Len(out) = enqueued

\* C20 witness: the Kafka bus has handled three records and produced their
\* three outputs in order, no failure, no stop
C20_Witness ==
    /\ busKind = "kafka"
    /\ failSet = {}
    /\ ~stopped
    /\ Len(log) = 3
    /\ out = <<0, 1, 2>>
    /\ commitIssued = {0, 1, 2}


\* --------------------------------------------------- KafkaSettings, pure
\* the optional fields of KafkaSettings: None, empty, or a value
Settings ==
    [security_protocol : {None, "", "SASL_PLAINTEXT"},
     sasl_mechanism : {None, "SCRAM-SHA-256"},
     sasl_username : {None, "", "user"},
     sasl_password : {None, "", "secret"}]

SecurityKeys == {"security.protocol", "sasl.mechanisms", "sasl.username", "sasl.password"}

ConfigKeys == SecurityKeys \cup {"enable.auto.commit"}

\* a config before it is computed (Absent: the config has no such key)
EmptyConfig == [k \in ConfigKeys |-> Absent]

\* KafkaSettings.consumer_config(): its enable.auto.commit entry and its
\* security entries
ConsumerConfig(s) ==
    [k \in ConfigKeys |->
        IF k = "enable.auto.commit" THEN "False"
        ELSE IF Truthy(s.sasl_username) /\ Truthy(s.sasl_password)
        THEN CASE k = "security.protocol" -> Or(s.security_protocol, "SASL_SSL")
               [] k = "sasl.mechanisms" -> Or(s.sasl_mechanism, "PLAIN")
               [] k = "sasl.username" -> s.sasl_username
               [] k = "sasl.password" -> s.sasl_password
        ELSE IF Truthy(s.security_protocol) /\ k = "security.protocol"
        THEN s.security_protocol
        ELSE Absent]

\* mutant: one credential is enough for the producer's SASL block
ProducerConfig_EitherCredential(s) ==
    [k \in ConfigKeys |->
        IF k = "enable.auto.commit" THEN Absent
        ELSE IF Truthy(s.sasl_username) \/ Truthy(s.sasl_password)
        THEN CASE k = "security.protocol" -> Or(s.security_protocol, "SASL_SSL")
               [] k = "sasl.mechanisms" -> Or(s.sasl_mechanism, "PLAIN")
               [] k = "sasl.username" -> s.sasl_username
               [] k = "sasl.password" -> s.sasl_password
        ELSE IF Truthy(s.security_protocol) /\ k = "security.protocol"
        THEN s.security_protocol
        ELSE Absent]

\* KafkaSettings.producer_config(): the same security entries, written out
\* a second time; it never sets enable.auto.commit
ProducerConfig(s) ==
    [k \in ConfigKeys |->
        IF k = "enable.auto.commit" THEN Absent
        ELSE IF Truthy(s.sasl_username) /\ Truthy(s.sasl_password)
        THEN CASE k = "security.protocol" -> Or(s.security_protocol, "SASL_SSL")
               [] k = "sasl.mechanisms" -> Or(s.sasl_mechanism, "PLAIN")
               [] k = "sasl.username" -> s.sasl_username
               [] k = "sasl.password" -> s.sasl_password
        ELSE IF Truthy(s.security_protocol) /\ k = "security.protocol"
        THEN s.security_protocol
        ELSE Absent]

\* everything but config
settingsFrame == <<busKind, libAvailable, max_messages, log, consume_max, memory, call, pc, exc,
                   workerVars, busVars, committed, input_queue, enqueued, bus_processed,
                   out, msg, cur, success, sigCount, histVars, stopAt>>

SettingsInit ==
    /\ InitWorker
    /\ busKind = "kafka"
    /\ libAvailable
    /\ max_messages = NoMax
    /\ log = <<>>
    /\ call = NoCall
    /\ config \in {[have |-> {}, settings |-> s, consumer |-> EmptyConfig,
                    producer |-> EmptyConfig] : s \in Settings}
    /\ memory = NoMemory

\* settings.consumer_config() is called
CallConsumerConfig ==
    /\ "settings" \in DOMAIN config
    /\ "consumer" \notin config.have
    /\ config' = [config EXCEPT !.consumer = ConsumerConfig(config.settings),
                                !.have = @ \cup {"consumer"}]
    /\ UNCHANGED settingsFrame

\* settings.producer_config() is called
CallProducerConfig ==
    /\ "settings" \in DOMAIN config
    /\ "producer" \notin config.have
    /\ config' = [config EXCEPT !.producer = ProducerConfig(config.settings),
                                !.have = @ \cup {"producer"}]
    /\ UNCHANGED settingsFrame

SettingsNext == CallConsumerConfig \/ CallProducerConfig

SettingsSpec == SettingsInit /\ [][SettingsNext]_vars

\* C21: both configs have the four sasl / security keys, with the user name
\* and the password given, the protocol given or SASL_SSL, the mechanism given
\* or PLAIN, exactly when user name and password are both non-empty, and the
\* two configs then agree on them; otherwise neither has a sasl.* key and
\* security.protocol is there only when a non-empty protocol was set, with
\* that value.  consumer_config has enable.auto.commit = False.
C21_SaslIffBothCredentials ==
    config.have = {"consumer", "producer"} =>
        LET s == config.settings
            both == s.sasl_username \notin {None, ""} /\ s.sasl_password \notin {None, ""}
            set == s.security_protocol \notin {None, ""}
        IN  /\ config.consumer["enable.auto.commit"] = "False"
            /\ \A c \in {config.consumer, config.producer} :
                  /\ both =>
                        /\ c["sasl.username"] = s.sasl_username
                        /\ c["sasl.password"] = s.sasl_password
                        /\ c["security.protocol"] =
                              (IF set THEN s.security_protocol ELSE "SASL_SSL")
                        /\ c["sasl.mechanisms"] =
                              (IF s.sasl_mechanism = None THEN "PLAIN" ELSE s.sasl_mechanism)
                  /\ ~both =>
                        /\ \A k \in {"sasl.mechanisms", "sasl.username", "sasl.password"} :
                              c[k] = Absent
                        /\ c["security.protocol"] =
                              (IF set THEN s.security_protocol ELSE Absent)
            /\ \A k \in SecurityKeys : config.consumer[k] = config.producer[k]

\* C21 witness: user name and password set, protocol and mechanism not: both
\* configs computed, with SASL_SSL and PLAIN
C21_Witness ==
    /\ config.have = {"consumer", "producer"}
    /\ config.settings.sasl_username = "user"
    /\ config.settings.sasl_password = "secret"
    /\ config.settings.security_protocol = None
    /\ config.settings.sasl_mechanism = None
    /\ config.producer["security.protocol"] = "SASL_SSL"
    /\ config.consumer["sasl.mechanisms"] = "PLAIN"

\* C22: on the Kafka bus, when _handle_message has returned true the consumer
\* is still open for the commit of that message.
C22_CommitOnOpenConsumer ==
    (busKind = "kafka" /\ pc = "after_handler" /\ success = "true") => consumer = "open"

\* C23 as stated: after start() on the in-memory bus the input queue and the
\* topic lists are empty, whatever was enqueued or produced before the call.
C23_StartResetsQueues ==
    [][(handles'.starts # handles.starts /\ busKind = "mock") =>
          (input_queue' = <<>> /\ out' = <<>>)]_vars

\* C23 amended: start() on the in-memory bus sets the running flag and leaves
\* the input queue and the topic lists exactly as they were before the call.
C23_StartKeepsQueues ==
    [][(handles'.starts # handles.starts /\ busKind = "mock") =>
          (running' /\ input_queue' = input_queue /\ out' = out /\ enqueued' = enqueued)]_vars

\* C23 witness: the in-memory bus running after its one start(), with the
\* messages enqueued and produced while it was stopped still in place
C23_Witness ==
    /\ busKind = "mock"
    /\ running
    /\ handles.starts = 1
    /\ busStopCalls = 0
    /\ pc = "created"
    /\ Len(input_queue) = MaxQueue
    /\ Len(out) = MaxProduce

\* C24: when stop() of the Kafka bus returns, no consumer this bus instance
\* has constructed is still open: each constructed consumer has been closed,
\* whether start() completed or raised after the consumer was constructed.
C24_StopReleasesHandles ==
    [][(busStopCalls' # busStopCalls /\ busKind = "kafka") =>
          (consumer' # "open" /\ handles'.closes = handles'.consumers)]_vars

\* the consume loop keeps running: the thread in consume is never suspended
\* for ever, and a handler call returns or raises
ConsumeFairSpec ==
    ConsumeSpec /\ WF_vars(ConsumeEntry \/ MockLoop \/ GenericHandler \/ MockAfterHandler
                          \/ ConsumeReturns)

\* a handler call ends in failure: it returns false or raises
HandlerFails == success' # success /\ success' \in {"false", "raised"}

C26_MaxMessagesBound ==
    (busKind = "mock" /\ consume_max.given /\ pc \in {"loop", "hm_entry", "after_handler",
                                                     "run_finally"}) =>
        bus_processed <= consume_max.val

\* C30: on the in-memory bus, after any sequence of enqueue_input and consume
\* steps with any handler outcomes, every enqueued message is in exactly one
\* place: once in the input queue, or with the handler, or handled
\* successfully; nothing else is in the queue; and a message whose handler
\* never failed is handled only after every message enqueued before it has
\* been handled or has failed.
C30_MessageConservation ==
    /\ [](busKind = "mock" =>
            /\ Range(input_queue) \subseteq 0 .. (enqueued - 1)
            /\ \A i \in 0 .. (enqueued - 1) :
                  LET inQueue == Cardinality({k \in 1 .. Len(input_queue) : input_queue[k] = i})
                      inHandler == IF cur = i /\ i \notin okSet THEN 1 ELSE 0
                      handled == IF i \in okSet THEN 1 ELSE 0
                  IN  inQueue + inHandler + handled = 1)
    /\ [][(busKind = "mock" /\ okSet' # okSet) =>
             /\ okSet' = okSet \cup {cur}
             /\ cur \notin okSet
             /\ cur \notin failSet => \A j \in 0 .. (cur - 1) : j \in okSet \cup failSet]_vars

\* C30 witness: of three enqueued messages the first failed and waits behind
\* the third, the second is handled
C30_Witness ==
    /\ busKind = "mock"
    /\ pc = "loop"
    /\ enqueued = 3
    /\ input_queue = <<2, 0>>
    /\ okSet = {1}
    /\ 0 \in failSet

\* C27: in KafkaMessageBus.consume a poll that returns nothing, a broker error
\* or a record without value goes straight back to the loop check: no handler
\* call, no commit, no output; a record without value is consumed (the fetch
\* position moves past it and never moves back), so it is never handed to the
\* handler and commit is never called for it.
C27_SkippedPolls ==
    /\ [][(pc = "poll" /\ pc' # pc /\ consumer = "open" /\ msg' # "value") =>
             /\ msg' \in {"None", "error", "novalue"}
             /\ pc' = "loop"
             /\ position' = IF msg' = "novalue" THEN position + 1 ELSE position
             /\ UNCHANGED <<running, cur, success, passed, invoked, commitIssued, committed,
                            out, processed, stopped>>]_vars
    /\ [][position' >= position]_vars
    /\ [](\A k \in 1 .. Len(log) :
            log[k] = "novalue" => (k - 1) \notin (passed \cup invoked \cup commitIssued))

\* C27 witness: the first record had no value and was skipped; the loop went
\* on, polled the second record, handled and committed it
C27_Witness ==
    /\ busKind = "kafka"
    /\ Len(log) >= 2
    /\ log[1] = "novalue"
    /\ msg = "value"
    /\ passed = {1}
    /\ commitIssued = {1}
    /\ committed = 2
    /\ pc = "loop"

\* C28: the step in which the processor raises inside _handle_message hands
\* the exception to the bus and changes nothing of the worker or the bus: no
\* output, processed counter and stop flag as they were, bus still in its
\* state; the bus's next step is its failure policy: the in-memory bus puts
\* the message back at the tail without counting it, the Kafka bus issues no
\* commit and keeps the committed offset.
C28_ProcessorFailure ==
    [][/\ (pc = "hm_processor" /\ success' = "raised") =>
             /\ pc' = "after_handler"
             /\ cur' = cur
             /\ UNCHANGED <<out, processed, stopped, running, busStopCalls, input_queue,
                            committed, commitIssued, exc>>
       /\ (pc = "after_handler" /\ success = "raised" /\ pc' # pc) =>
             /\ UNCHANGED <<out, processed, stopped, running, exc>>
             /\ busKind = "mock" =>
                   (input_queue' = Append(input_queue, cur) /\ bus_processed' = bus_processed)
             /\ busKind = "kafka" =>
                   (commitIssued' = commitIssued /\ committed' = committed /\ pc' = "loop")
      ]_vars

\* C28 witness: on the in-memory bus the processor raised for the first of two
\* messages, which now waits behind the second; nothing was produced or counted
C28_Witness ==
    /\ busKind = "mock"
    /\ pc = "loop"
    /\ raisedEver
    /\ failSet = {0}
    /\ invoked = {0}
    /\ input_queue = <<1, 0>>
    /\ out = <<>>
    /\ processed = 0
    /\ ~stopped

\* C29: _parse_payload of a JSON object returns as text the first of
\* request_text, message, payload that is present and not empty, and the JSON
\* serialization of the whole object when there is none; as metadata the
\* metadata field when it is an object and the empty dict otherwise.  Of a
\* JSON value that is neither object nor string it returns the value's JSON
\* serialization and the empty dict.
C29_ParseObject ==
    (call.stage = "parsed") =>
        LET raw == call.raw
            empty == {Absent, ""}
        IN  /\ raw.kind = "object" =>
                 /\ call.parsed.text =
                       IF raw.request_text \notin empty THEN raw.request_text
                       ELSE IF raw.message \notin empty THEN raw.message
                       ELSE IF raw.payload \notin empty THEN raw.payload
                       ELSE "<dumps of object>"
                 /\ call.parsed.meta =
                       IF raw.metadata.kind = "dict" THEN raw.metadata.dict
                       ELSE [user_id |-> Absent, session_id |-> Absent]
            /\ raw.kind = "other" =>
                 /\ call.parsed.text = IF raw.raw = "[1,2]" THEN "[1, 2]" ELSE raw.raw
                 /\ call.parsed.meta = [user_id |-> Absent, session_id |-> Absent]

\* C29 witness: an object with an empty request_text, a message, a payload and
\* an embedded metadata object has been parsed to the message text
C29_Witness ==
    /\ call.stage = "parsed"
    /\ call.raw.kind = "object"
    /\ call.raw.request_text = ""
    /\ call.raw.message = "msg"
    /\ call.raw.payload = "pl"
    /\ call.raw.metadata.kind = "dict"
    /\ call.raw.metadata.dict.user_id = "uY"
    /\ call.parsed.text = "msg"
    /\ call.parsed.meta.user_id = "uY"

\* C31: at every stage of _handle_message, and of every later attempt the
\* in-memory bus makes for the same message, the raw payload and the
\* transport's metadata (its headers and its own entries) are those the first
\* attempt was given.
C31_InboundUnchanged ==
    (call.stage # "none") =>
        /\ call.raw = call.first.raw
        /\ call.headers = call.first.headers
        /\ call.transport = call.first.transport

\* C31 witness: the second attempt for a message has merged its metadata, and
\* the merged user_id (from the bot_id header) differs from the user_id the
\* transport's mapping holds
C31_Witness ==
    /\ busKind = "mock"
    /\ call.stage = "merged"
    /\ call.attempt = 2
    /\ call.transport.user_id = "uT"
    /\ call.merged.user_id = "b1"
    /\ call.raw.kind = "object"

\* C32 as stated: in every reachable state of a worker over the in-memory bus
\* the processed counter equals the number of outputs in the output topic; the
\* counter never decreases; the k-th handler call to succeed wrote the k-th
\* output.
C32_ProcessedEqualsOutputs ==
    /\ [](busKind = "mock" => processed = Len(out))
    /\ [][busKind = "mock" =>
            /\ processed' >= processed
            /\ okSet' # okSet => (okSet' = okSet \cup {cur} /\ out[Cardinality(okSet')] = cur)
         ]_vars

\* C32 amended: the counter is incremented right after the output is appended,
\* so it equals the number of outputs except between these two statements of
\* _handle_message, where it is one less; the counter never decreases; outputs
\* are only appended, and the k-th handler call to succeed wrote the k-th
\* output.
C32_ProcessedFollowsOutputs ==
    /\ [](busKind = "mock" =>
            /\ pc # "hm_count" => processed = Len(out)
            /\ pc = "hm_count" => (processed + 1 = Len(out) /\ out[Len(out)] = cur)
            /\ Cardinality(okSet) = processed)
    /\ [][busKind = "mock" =>
            /\ processed' >= processed
            /\ out' # out => out' = Append(out, cur)
            /\ okSet' # okSet => (okSet' = okSet \cup {cur} /\ out[Cardinality(okSet')] = cur)
         ]_vars

\* C32 witness: message 0 failed and was requeued, message 1 succeeded, and the
\* retried message 0 has its output appended but is not counted yet
C32_Witness ==
    /\ busKind = "mock"
    /\ pc = "hm_count"
    /\ cur = 0
    /\ processed = 1
    /\ out = <<1, 0>>
    /\ okSet = {1}

\* ------------------------------------------------------------ RedisMemory
\* bounds: the largest window_size tried, the add_message calls and the
\* foreign writes followed
MaxWindow == 2
MaxAdds == 3
MaxForeign == 1

\* int(os.environ.get('CHAT_HISTORY_WINDOW_SIZE', 10))
DefaultWindow == 10

Chats == {"chatA", "chatB"}
Clients == {"client1", "client2"}
Roles == {"user", "assistant"}

\* the window_size argument (None: not given) and CHAT_HISTORY_WINDOW_SIZE (not
\* given: not in the environment)
WindowArgs == {[given |-> FALSE, val |-> 0]} \cup {[given |-> TRUE, val |-> n] : n \in 0 .. MaxWindow}

\* `window_size or int(os.environ.get('CHAT_HISTORY_WINDOW_SIZE', 10))`: an
\* argument of 0 is falsy and gives way to the environment
WindowSize(arg, env) ==
    IF arg.given /\ arg.val # 0 THEN arg.val
    ELSE IF env.given THEN env.val
    ELSE DefaultWindow

\* Redis list indices: a negative index counts from the tail; the start is
\* clamped to the head, the stop to the tail; an empty range gives the empty list
RedisRange(list, start, stop) ==
    LET len == Len(list)
        s0 == IF start < 0 THEN len + start ELSE start
        s == IF s0 < 0 THEN 0 ELSE s0
        e0 == IF stop < 0 THEN len + stop ELSE stop
        e == IF e0 >= len THEN len - 1 ELSE e0
    IN  IF s > e THEN <<>> ELSE SubSeq(list, s + 1, e + 1)

\* pipeline.rpush(key, message); pipeline.ltrim(key, -self.window_size, -1);
\* pipeline.execute(): RPUSH and LTRIM in one MULTI/EXEC
AddPipeline(list, entry, w) == RedisRange(Append(list, entry), 0 - w, 0 - 1)

\* what a stored string is to json.loads and the isinstance / `in` test:
\*   rc      a JSON object with role and content (what add_message writes)
\*   text    not JSON: JSONDecodeError, caught
\*   list    JSON, not an object; norole: an object without 'role'
\*   deep    brackets nested deeper than the recursion limit: RecursionError,
\*           not caught
ForeignKinds == {"text", "list", "norole", "deep"}

\* the loop of get_last_messages over raw_messages
RECURSIVE ParseMessages(_)
ParseMessages(raws) ==
    IF raws = <<>> THEN <<>>
    ELSE LET raw == Head(raws)
             rest == ParseMessages(Tail(raws))
         IN  IF raw.kind = "rc"
             THEN <<[role |-> raw.role, content |-> raw.n]>> \o rest
             ELSE rest

\* get_last_messages: client.lrange(key, -self.window_size, -1), then the
\* loop; an exception other than JSONDecodeError leaves the method
GetLastMessages(list, w) ==
    LET raws == RedisRange(list, 0 - w, 0 - 1)
        escapes == \E i \in 1 .. Len(raws) : raws[i].kind = "deep"
    IN  [raised |-> escapes,
         messages |-> IF escapes THEN <<>> ELSE ParseMessages(raws)]

NoPending == [chat |-> "none", role |-> "none"]
NoGot == [chat |-> "none", raised |-> FALSE, messages |-> <<>>, from |-> <<>>]

\* everything but memory
memoryFrame == <<busKind, libAvailable, max_messages, log, consume_max, config, call, pc, exc,
                 workerVars, busVars, committed, input_queue, enqueued, bus_processed,
                 out, msg, cur, success, sigCount, histVars, stopAt>>

\* RedisMemory.__init__ of every client against one empty Redis; `added`,
\* `begun`, `foreign`, `last` and `got` are history
RedisInit ==
    /\ InitWorker
    /\ busKind = "mock"
    /\ max_messages = NoMax
    /\ call = NoCall
    /\ config = NoConfig
    /\ memory \in {[have |-> {"redis"},
                    window |-> WindowSize(a, e),
                    lists |-> [c \in Chats |-> <<>>],
                    pending |-> [c \in Clients |-> NoPending],
                    added |-> [c \in Chats |-> 0],
                    begun |-> 0,
                    foreign |-> 0,
                    last |-> "none",
                    got |-> NoGot] : a \in WindowArgs, e \in WindowArgs}

\* add_message up to pipeline.execute(): the message is serialized and the two
\* commands are queued in the client's pipeline
AddBegin(c, chat, role) ==
    /\ "redis" \in memory.have
    /\ memory.pending[c] = NoPending
    /\ memory.begun < MaxAdds
    /\ memory' = [memory EXCEPT !.pending[c] = [chat |-> chat, role |-> role],
                                !.begun = @ + 1]
    /\ UNCHANGED memoryFrame

\* pipeline.execute()
AddExecute(c) ==
    /\ "redis" \in memory.have
    /\ memory.pending[c] # NoPending
    /\ LET chat == memory.pending[c].chat
           entry == [n |-> memory.added[chat] + 1, kind |-> "rc",
                     role |-> memory.pending[c].role]
       IN  memory' = [memory EXCEPT
                        !.lists[chat] = AddPipeline(@, entry, memory.window),
                        !.added[chat] = @ + 1,
                        !.pending[c] = NoPending,
                        !.last = chat]
    /\ UNCHANGED memoryFrame

\* another writer replaces a stored entry by a string that is not a
\* role/content object (the entries get_last_messages is written to skip)
ForeignWrite(chat, i, kind) ==
    /\ "redis" \in memory.have
    /\ memory.foreign < MaxForeign
    /\ i \in 1 .. Len(memory.lists[chat])
    /\ memory' = [memory EXCEPT !.lists[chat][i].kind = kind,
                                !.foreign = @ + 1,
                                !.last = "none"]
    /\ UNCHANGED memoryFrame

\* get_last_messages(chat)
CallGetLastMessages(chat) ==
    /\ "redis" \in memory.have
    /\ LET r == GetLastMessages(memory.lists[chat], memory.window)
       IN  memory' = [memory EXCEPT
                        !.got = [chat |-> chat, raised |-> r.raised, messages |-> r.messages,
                                 from |-> memory.lists[chat]],
                        !.last = "none"]
    /\ UNCHANGED memoryFrame

RedisNext ==
    \/ \E c \in Clients, chat \in Chats, role \in Roles : AddBegin(c, chat, role)
    \/ \E c \in Clients : AddExecute(c)
    \/ \E chat \in Chats, i \in 1 .. MaxAdds + 1, kind \in ForeignKinds :
          ForeignWrite(chat, i, kind)
    \/ \E chat \in Chats : CallGetLastMessages(chat)

RedisSpec == RedisInit /\ [][RedisNext]_vars

\* C33: after any add_message calls, from either client, every chat's list
\* holds at most window_size entries, and they are the last ones added to that
\* chat in the order they were added; an add_message changes the list of its
\* own chat only; get_last_messages does not raise and returns at most
\* window_size messages: the role/content objects among the last window_size
\* stored entries, in order, the other entries skipped.
C33_SlidingWindow ==
    /\ [](\A chat \in Chats :
            LET l == memory.lists[chat]
            IN  /\ Len(l) <= memory.window
                /\ Len(l) = IF memory.added[chat] < memory.window
                            THEN memory.added[chat] ELSE memory.window
                /\ \A i \in 1 .. Len(l) : l[i].n = memory.added[chat] - Len(l) + i)
    /\ [](LET from == memory.got.from
              k == IF Len(from) < memory.window THEN Len(from) ELSE memory.window
              IsMessage(e) == e.kind = "rc"
              kept == SelectSeq(SubSeq(from, Len(from) - k + 1, Len(from)), IsMessage)
          IN  /\ ~memory.got.raised
              /\ Len(memory.got.messages) <= memory.window
              /\ Len(memory.got.messages) = Len(kept)
              /\ \A j \in 1 .. Len(kept) :
                    memory.got.messages[j] = [role |-> kept[j].role, content |-> kept[j].n])
    /\ [][memory'.added # memory.added =>
            \A chat \in Chats \ {memory'.last} :
               /\ memory'.lists[chat] = memory.lists[chat]
               /\ memory'.added[chat] = memory.added[chat]]_vars
=============================================================================
